---- MODULE Spec2Model ----
(***************************************************************************)
(* AsyncGraphGroup (src/src/training/graph_group.h): the asynchronous,     *)
(* sharded parameter store and the per-thread training task.               *)
(*                                                                         *)
(* Buffers are modelled symbolically.  The contents of a shard's parameter *)
(* buffer is the sequence of optimizer updates applied to the initial      *)
(* values (its length is the number of updates applied); a gradient is the *)
(* sequence of the per-step gradients that were added into it, each named  *)
(* by the worker and the local step that computed it.                      *)
(***************************************************************************)
EXTENDS Integers, Sequences, FiniteSets, TLC

\* ------------------------------------------------------------ bounds
\* number of update(batch) calls of the training driver
MaxBatches == 4
\* the same with two devices and a scheduler set, without and with moving average
MaxScheduled == 3
MaxAveraged == 2
\* sharding: largest parameter count and device count tried
MaxParams == 9
MaxShardDevices == 4
\* sparse fetch applied to a store: largest shard version tried
MaxVersion == 4

\* ------------------------------------------------------------ state
VARIABLES
  cfg,                  \* options: devices, drop-rate set, tau, batch-flexible-lr, words per batch
  first_,               \* first_
  submitted,            \* batches handed to update() so far
  queue,                \* pool_: enqueued batches (their word counts)
  staticI,              \* static size_t i of the task lambda
  fetchDropper,         \* fetchDropper: the my_id of each creator, in push_back order
  globalVersionNumber,  \* per shard
  localVersionNumbers,  \* per worker, per shard
  params_,              \* params_[h][idx]
  grads_,               \* grads_[idx]
  paramsAvg_,           \* paramsAvg_[idx]: the buffers blended into the average
  shardSync_,           \* per shard: the threads inside the mutex
  pc,                   \* per pool thread: position in the task
  bound,                \* thread_local graph is set
  hasDropper,           \* thread_local dropper is set
  my_id,                \* thread_local my_id
  t,                    \* thread_local t
  num_seen_words,       \* thread_local num_seen_words
  accGradients,         \* thread_local accGradients
  graphGrads,           \* graph->params()->grads() of the thread's replica
  window,               \* per thread: <<gradient, words>> of the steps since its last flush (history)
  batch,                \* the batch of the running task (its word count)
  replica,              \* graph->params()->vals() of the thread's replica, per shard slice
  hpc,                  \* per thread, per shard: position of the helper std::thread
  slotArg,              \* dense fetch: index h of the params_[h] handed to fetchParams
  currVersion,          \* sparse fetch helper: local currVersion
  pastVersion,          \* push helper: local pastVersion
  latestVersion,        \* push helper / sparse fetch helper: local latestVersion
  pushArg,              \* arguments of the running pushGradients / sparsePush
  pushes,               \* per shard: pushes that have completed (history)
  crashed,              \* the process has faulted
  schedulerMutex_,      \* schedulerMutex_: the threads that own it
  numberOfBatches,      \* scheduler_->numberOfBatches()
  destroyed,            \* ~AsyncGraphGroup: how many members are destroyed, last declared first
  \* the Triton backend (marian.cc)
  model_config_,        \* ModelState::model_config_: parameters, parameters["async"], its string_value
  modelState,           \* "none", "created", "initialized" (TRITONBACKEND_ModelInitialize succeeded), "failed"
  modelError,           \* the error code TRITONBACKEND_ModelInitialize returned
  async_mode_,          \* ModelState::async_mode_
  instances,            \* ModelInstanceState::async_ of each instance
  served,               \* the calls of TRITONBACKEND_ModelInstanceExecute: <<instance, path>>
  \* the calls made on the graph replicas (history)
  forwardCalls,         \* per replica: calls of graphs_[i]->forward()
  backwardCalls,        \* per replica: calls of graphs_[i]->backward()
  \* the sharding of execute() and the offsets of fetchParams, index by index
  shStage,              \* "start", "sharding", "sharded", "fetched", "pushing", "pushed"
  shTotal,              \* graphs_[0]->params()->vals()->size()
  shDevices,            \* devices_.size()
  shardSize_,           \* shardSize_
  shRemaining,          \* execute(): int totalSize
  shPos,                \* execute(): int pos
  shSizes,              \* params_[0][i]->size(), in device order
  shStarts,             \* the position each params_[0][i] was copied from
  fpIdx,                \* fetchParams: idx
  fpPos,                \* fetchParams: pos
  fpCovered,            \* fetchParams: <<index of dest written, index of the parameter copied>>
  spEntries,            \* sparsePush: the indices of the entries of newGrads
  spIdx,                \* sparsePush: idx
  spPos,                \* sparsePush: pos
  spDelivered,          \* sparsePush: <<shard, position written in grads_[shard], entry>>
  \* the functions applied on their own
  fnIn,                 \* the arguments (and members read) of the call
  fnOut,                \* what the call returned or wrote; called is FALSE before it
  \* one call of serveRequestsSync or serveRequestsAsync (marian.cc)
  svAsync,              \* instance_state->Async() of the instance
  svRequests,           \* requests: per request its number of sentences and what fails for it
  svEmptied,            \* the sentences Marian translates to the empty string
  svpc,                 \* "idle", "gather", "translate", "assign", "callbacks", "returned", "crashed"
  svR,                  \* r of the loop the call is in
  responses,            \* responses[r]: TRUE while not nullptr
  request_input,        \* request_input, by the request each entry belongs to
  request_batch_size,   \* request_batch_size
  input_strings,        \* input_strings
  result,               \* what translate returned
  svPos,                \* char* pos, as the index of the line of result it points to
  partially_completed_requests,
  marianBatch_to_tritonRequest_map,
  marianBatchIdx_to_requestBatchIdx_map,
  pending,              \* the sentences translate_async has not called back for yet
  sent,                 \* the calls of TRITONBACKEND_ResponseSend
  released              \* per request, the calls of TRITONBACKEND_RequestRelease

storeVars == <<globalVersionNumber, localVersionNumbers, params_, grads_, paramsAvg_,
               shardSync_>>
threadVars == <<pc, bound, hasDropper, my_id, t, num_seen_words, accGradients,
                graphGrads, window, batch, replica>>
helperVars == <<hpc, slotArg, currVersion, pastVersion, latestVersion, pushArg>>
poolVars == <<cfg, first_, submitted, queue, staticI, fetchDropper, pushes, crashed>>
shardingVars == <<shStage, shTotal, shDevices, shardSize_, shRemaining, shPos, shSizes,
                  shStarts, fpIdx, fpPos, fpCovered, spEntries, spIdx, spPos, spDelivered>>
runVars == <<schedulerMutex_, numberOfBatches, destroyed>>
backendVars == <<model_config_, modelState, modelError, async_mode_, instances, served>>
graphVars == <<forwardCalls, backwardCalls>>
pureVars == <<fnIn, fnOut>>
serveVars == <<svAsync, svRequests, svEmptied, svpc, svR, responses, request_input,
               request_batch_size, input_strings, result, svPos,
               partially_completed_requests, marianBatch_to_tritonRequest_map,
               marianBatchIdx_to_requestBatchIdx_map, pending, sent, released>>
vars == <<storeVars, threadVars, helperVars, poolVars, shardingVars, runVars, backendVars,
         graphVars, pureVars, serveVars>>

\* ------------------------------------------------------------ options
\* no scheduler is set
NoScheduler == [set |-> FALSE, saves |-> {}, validates |-> {}]
\* a scheduler is set: saving() and validating() answer by the batch count, yes
\* at the counts of saves and of validates
Scheduler(saves, validates) == [set |-> TRUE, saves |-> saves, validates |-> validates]

\* devices, drop-rate > 0, tau, batch-flexible-lr, moving-average, the scheduler;
\* the driver: the number of batches it submits and whether it then destroys
\* the graph group; the batches: the word counts a batch may have, and whether
\* every step's gradient is a value of its own
Cfg(n, drop, tau, scale, avg, sched, batches, destroy, words, distinct) ==
  [n |-> n, drop |-> drop, tau |-> tau, scale_lr |-> scale, movingAvg |-> avg,
   scheduler |-> sched, batches |-> batches, destroy |-> destroy, words |-> words,
   distinct |-> distinct]

\* moving-average reads scheduler_->numberOfBatches() in every push, so it is
\* explored with a scheduler set only
Schedulers ==
  {<<FALSE, NoScheduler>>, <<FALSE, Scheduler({1, 3}, {2, 3})>>,
   <<TRUE, Scheduler({1, 3}, {2, 3})>>}

\* The configurations explored.  One device: every task runs on one thread, the
\* batches differ in size.  Two devices: dense and compressed; without a
\* scheduler with tau = 1 (all batches and gradients alike) and with tau = 2,
\* with a scheduler with tau = 1, with and without the moving average.
Configs ==
  {Cfg(1, d, tau, sc, m[1], m[2], MaxBatches, TRUE, {1, 2}, TRUE) :
     d \in BOOLEAN, tau \in {1, 2}, sc \in BOOLEAN, m \in Schedulers}
  \cup {Cfg(2, d, 1, TRUE, FALSE, NoScheduler, MaxBatches, FALSE, {1}, FALSE) :
          d \in BOOLEAN}
  \cup {Cfg(2, d, 2, TRUE, FALSE, NoScheduler, MaxBatches, TRUE, {1}, TRUE) :
          d \in BOOLEAN}
  \cup {Cfg(2, d, 1, TRUE, FALSE, Scheduler({2, 3}, {1, 3}), MaxScheduled, TRUE,
             {1}, FALSE) : d \in BOOLEAN}
  \cup {Cfg(2, d, 1, TRUE, TRUE, Scheduler({1}, {2}), MaxAveraged, TRUE,
             {1}, FALSE) : d \in BOOLEAN}

NumDevices == cfg.n
Threads == 0 .. (NumDevices - 1)
Shards == 0 .. (NumDevices - 1)
drop_rate_ == cfg.drop
tau_ == cfg.tau
movingAvg_ == cfg.movingAvg

\* history_size_ = devices_.size() * 1.5 when drop_rate_ > 0, else 1
HistorySize(n, drop) == IF drop THEN (3 * n) \div 2 ELSE 1
history_size_ == HistorySize(cfg.n, cfg.drop)
Slots == 0 .. (history_size_ - 1)

\* ------------------------------------------------------------ values
InitialParams == << >>
NoGradient == << >>
FreshReplica == [base |-> InitialParams, patches |-> << >>]
NoPush == [g |-> NoGradient, sparse |-> FALSE, words |-> 0]
\* the gradient worker id computes at its local step k
Token(id, k) == IF cfg.distinct THEN <<id, k>> ELSE <<0, 0>>
\* shardOpt_[idx]->update(params, grads [, batch_words / average_batch_words])
Update(g, words) == [g |-> g, scale |-> IF cfg.scale_lr THEN <<words>> ELSE << >>]
OptimizerUpdate(p, g, words) == Append(p, Update(g, words))

\* numbers are fractions <<numerator, denominator>> with a positive denominator
FMul(a, b) == <<a[1] * b[1], a[2] * b[2]>>
FAdd(a, b) == <<a[1] * b[2] + b[1] * a[2], a[2] * b[2]>>
FSub(a, b) == <<a[1] * b[2] - b[1] * a[2], a[2] * b[2]>>
FLess(a, b) == a[1] * b[2] < b[1] * a[2]
FEq(a, b) == a[1] * b[2] = b[1] * a[2]

MinFraction_Second(a, b) == b
\* min(a, b): b if b < a, else a
MinFraction(a, b) == IF FLess(b, a) THEN b ELSE a

\* float mvDecay_{0.9999}, the value the store model runs with
mvDecay_ == <<9999, 10000>>

\* float decay = min(mvDecay_, (float)(batches + 1) / (float)(batches + 10))
DecayOf(mvDecay, batches) == MinFraction(mvDecay, <<batches + 1, batches + 10>>)

\* the decay of the store model: with mvDecay_ = 0.9999 the minimum is the
\* fraction for every batches < 89990
Decay(batches) == DecayOf(mvDecay_, batches)

\* the shadow buffer right after paramAvg->copyFrom(params_[0][i])
CopyOf(params) == <<[decay |-> <<0, 1>>, params |-> params]>>

updateMovingAverage_Copies(paramsAvg, params, batches) == CopyOf(params)
\* paramsAvg = decay * paramsAvg + (1 - decay) * params: the average is kept as
\* the buffers blended into it, oldest first, each with the decay of its blend
updateMovingAverage(paramsAvg, params, batches) ==
  Append(paramsAvg, [decay |-> Decay(batches), params |-> params])

\* ------------------------------------------------------------ initial state
\* the sharding model's variables while the store model runs
\* no model is loaded into the backend
BackendIdle ==
  /\ model_config_ = [parameters |-> FALSE, async |-> FALSE, string_value |-> << >>]
  /\ modelState = "none"
  /\ modelError = "none"
  /\ async_mode_ = "unset"
  /\ instances = << >>
  /\ served = << >>

\* no function is applied on its own
PureIdle == fnIn = << >> /\ fnOut = [called |-> FALSE]

\* no requests are being served
ServeIdle ==
  /\ svAsync = FALSE /\ svRequests = << >> /\ svEmptied = {}
  /\ svpc = "idle" /\ svR = 0
  /\ responses = << >> /\ request_input = << >> /\ request_batch_size = << >>
  /\ input_strings = << >> /\ result = << >> /\ svPos = 0
  /\ partially_completed_requests = << >>
  /\ marianBatch_to_tritonRequest_map = << >>
  /\ marianBatchIdx_to_requestBatchIdx_map = << >>
  /\ pending = {} /\ sent = << >> /\ released = << >>

ShardingIdle ==
  /\ shStage = "start"
  /\ shTotal = 0 /\ shDevices = 0 /\ shardSize_ = 0 /\ shRemaining = 0
  /\ shPos = 0 /\ shSizes = << >> /\ shStarts = << >>
  /\ fpIdx = 0 /\ fpPos = 0 /\ fpCovered = {}
  /\ spEntries = {} /\ spIdx = 0 /\ spPos = 0 /\ spDelivered = {}

\* the state the constructor leaves for configuration c
Constructed(c) ==
  LET n == c.n
      ths == 0 .. (n - 1)
      H == HistorySize(c.n, c.drop)
  IN
  /\ cfg = c
  /\ first_ = TRUE
  /\ submitted = 0
  /\ queue = << >>
  /\ staticI = 0
  /\ fetchDropper = << >>
  /\ globalVersionNumber = << >>
  /\ localVersionNumbers = << >>
  /\ params_ = [h \in 0 .. (H - 1) |-> << >>]
  /\ grads_ = << >>
  /\ paramsAvg_ = << >>
  /\ shardSync_ = [s \in ths |-> {}]
  /\ pc = [th \in ths |-> "idle"]
  /\ bound = [th \in ths |-> FALSE]
  /\ hasDropper = [th \in ths |-> FALSE]
  /\ my_id = [th \in ths |-> 0]
  /\ t = [th \in ths |-> 0]
  /\ num_seen_words = [th \in ths |-> 0]
  /\ accGradients = [th \in ths |-> NoGradient]
  /\ window = [th \in ths |-> << >>]
  /\ graphGrads = [th \in ths |-> NoGradient]
  /\ batch = [th \in ths |-> 0]
  /\ replica = [th \in ths |-> [s \in ths |-> FreshReplica]]
  /\ hpc = [th \in ths |-> [s \in ths |-> "none"]]
  /\ slotArg = [th \in ths |-> 0]
  /\ currVersion = [th \in ths |-> [s \in ths |-> 0]]
  /\ pastVersion = [th \in ths |-> [s \in ths |-> 0]]
  /\ latestVersion = [th \in ths |-> [s \in ths |-> 0]]
  /\ pushArg = [th \in ths |-> NoPush]
  /\ pushes = [s \in ths |-> 0]
  /\ crashed = FALSE
  /\ schedulerMutex_ = {}
  /\ numberOfBatches = 0
  /\ destroyed = 0
  /\ forwardCalls = [r \in ths |-> 0]
  /\ backwardCalls = [r \in ths |-> 0]

Init ==
  /\ \E c \in Configs : Constructed(c)
  /\ ShardingIdle
  /\ BackendIdle
  /\ PureIdle
  /\ ServeIdle

\* ------------------------------------------------------------ update(batch)
\* execute(): the first call initialises the versions and shards the
\* parameters of graphs_[0] into every history slot; every call enqueues
\* the task.  pool_ holds at most devices_.size() waiting tasks.
InitForwards_None(calls) == calls
\* THREAD_GUARD(builders_[i]->build(graphs_[i], batch); graphs_[i]->forward();)
InitForwards(calls) == calls + 1

ExecuteFirst ==
  /\ globalVersionNumber' = [s \in Shards |-> 0]
  /\ localVersionNumbers' = [w \in Threads |-> [s \in Shards |-> 0]]
  /\ params_' = [h \in Slots |-> [s \in Shards |-> InitialParams]]
  /\ grads_' = [s \in Shards |-> NoGradient]
  /\ paramsAvg_' = IF movingAvg_ THEN [s \in Shards |-> CopyOf(InitialParams)] ELSE << >>
  /\ forwardCalls' = [r \in Shards |-> InitForwards(forwardCalls[r])]

update ==
  /\ ~crashed
  /\ destroyed = 0
  /\ submitted < cfg.batches
  /\ Len(queue) < NumDevices
  /\ IF first_
       THEN ExecuteFirst
       ELSE UNCHANGED <<globalVersionNumber, localVersionNumbers, params_, grads_,
                       paramsAvg_, forwardCalls>>
  /\ first_' = FALSE
  /\ submitted' = submitted + 1
  /\ \E w \in cfg.words : queue' = Append(queue, w)
  /\ UNCHANGED <<shardSync_, threadVars, helperVars, cfg, staticI, fetchDropper,
                 pushes, crashed, shardingVars, runVars, backendVars, backwardCalls,
                 pureVars, serveVars>>

\* ------------------------------------------------------------ the task
\* a pool thread takes the next task
TakeTask(th) ==
  /\ ~crashed
  /\ pc[th] = "idle"
  /\ queue # << >>
  /\ batch' = [batch EXCEPT ![th] = Head(queue)]
  /\ queue' = Tail(queue)
  /\ pc' = [pc EXCEPT ![th] = IF ~bound[th] THEN "bind"
                              ELSE IF ~hasDropper[th] THEN "dropper" ELSE "fetch"]
  /\ UNCHANGED <<storeVars, bound, hasDropper, my_id, t, num_seen_words, accGradients,
                 graphGrads, window, replica, helperVars, cfg, first_, submitted,
                 staticI, fetchDropper, pushes, crashed, shardingVars, runVars, backendVars, graphVars,
                 pureVars, serveVars>>

NextIndex_Same(i) == i
\* builders_[i++]: the static index moves on to the next replica
NextIndex(i) == i + 1

\* if(!graph): under sync_, my_id = i; graph = graphs_[i]; builder = builders_[i++]
Bind(th) ==
  /\ ~crashed
  /\ pc[th] = "bind"
  /\ my_id' = [my_id EXCEPT ![th] = staticI]
  /\ staticI' = NextIndex(staticI)
  /\ bound' = [bound EXCEPT ![th] = TRUE]
  /\ pc' = [pc EXCEPT ![th] = IF ~hasDropper[th] THEN "dropper" ELSE "fetch"]
  /\ UNCHANGED <<storeVars, hasDropper, t, num_seen_words, accGradients,
                 graphGrads, window, batch, replica, helperVars, cfg, first_, submitted, queue,
                 fetchDropper, pushes, crashed, shardingVars, runVars, backendVars, graphVars,
                 pureVars, serveVars>>

\* if(!dropper): under sync_, dropper = ...; fetchDropper.push_back(tmp)
CreateDropper(th) ==
  /\ ~crashed
  /\ pc[th] = "dropper"
  /\ hasDropper' = [hasDropper EXCEPT ![th] = TRUE]
  /\ fetchDropper' = Append(fetchDropper, my_id[th])
  /\ pc' = [pc EXCEPT ![th] = "fetch"]
  /\ UNCHANGED <<storeVars, bound, my_id, t, num_seen_words, accGradients,
                 graphGrads, window, batch, replica, helperVars, cfg, first_, submitted, queue,
                 staticI, pushes, crashed, shardingVars, runVars, backendVars, graphVars,
                 pureVars, serveVars>>

AllHelpers(state) == [s \in Shards |-> state]

FetchDue_Always(th) == TRUE
\* if(t % tau_ == 0): the step fetches
FetchDue(th) == t[th] % tau_ = 0

FetchesSparse_Always(th) == drop_rate_
\* if(drop_rate_ && t > 0): the fetch is sparse
FetchesSparse(th) == drop_rate_ /\ t[th] > 0

\* t % tau_ != 0: no fetch at this step
SkipFetch(th) ==
  /\ ~crashed
  /\ pc[th] = "fetch"
  /\ ~FetchDue(th)
  /\ pc' = [pc EXCEPT ![th] = "compute"]
  /\ UNCHANGED <<storeVars, bound, hasDropper, my_id, t, num_seen_words, accGradients,
                 graphGrads, window, batch, replica, helperVars, poolVars,
                 shardingVars, runVars, backendVars, graphVars,
                 pureVars, serveVars>>

\* the index of the history vector the task hands to fetchParams
DenseFetchSlot(th) == globalVersionNumber[my_id[th]] % history_size_

\* fetchParams(graph->params()->vals(), params_[globalVersionNumber[my_id] % history_size_])
StartDenseFetch(th) ==
  /\ ~crashed
  /\ pc[th] = "fetch"
  /\ FetchDue(th)
  /\ ~FetchesSparse(th)
  /\ slotArg' = [slotArg EXCEPT ![th] = DenseFetchSlot(th)]
  /\ hpc' = [hpc EXCEPT ![th] = AllHelpers("dwait")]
  /\ pc' = [pc EXCEPT ![th] = "joinFetch"]
  /\ UNCHANGED <<storeVars, bound, hasDropper, my_id, t, num_seen_words, accGradients,
                 graphGrads, window, batch, replica, currVersion, pastVersion,
                 latestVersion, pushArg, poolVars, shardingVars, runVars, backendVars, graphVars,
                 pureVars, serveVars>>

\* sparseFetchParams(graph->params()->vals(), my_id); returns at once with one graph
StartSparseFetch(th) ==
  /\ ~crashed
  /\ pc[th] = "fetch"
  /\ FetchDue(th)
  /\ FetchesSparse(th)
  /\ IF NumDevices < 2
       THEN /\ pc' = [pc EXCEPT ![th] = "compute"]
            /\ hpc' = hpc
       ELSE /\ pc' = [pc EXCEPT ![th] = "joinFetch"]
            /\ hpc' = [hpc EXCEPT ![th] = AllHelpers("sfwait")]
  /\ UNCHANGED <<storeVars, bound, hasDropper, my_id, t, num_seen_words, accGradients,
                 graphGrads, window, batch, replica, slotArg, currVersion,
                 pastVersion, latestVersion, pushArg, poolVars, shardingVars, runVars, backendVars, graphVars,
                 pureVars, serveVars>>

\* ------------------------------------------------------------ fetchParams
Free_Always(s) == TRUE
\* std::lock_guard<std::mutex> guard(shardSync_[idx]) waits until the mutex is free
Free(s) == shardSync_[s] = {}

Lock_NoWait(th, s) == shardSync_' = [shardSync_ EXCEPT ![s] = shardSync_[s] \cup {th}]
Lock(th, s) ==
  /\ Free(s)
  /\ shardSync_' = [shardSync_ EXCEPT ![s] = shardSync_[s] \cup {th}]

Unlock(th, s) == shardSync_' = [shardSync_ EXCEPT ![s] = shardSync_[s] \ {th}]

DenseAcquire(th, s) ==
  /\ ~crashed
  /\ hpc[th][s] = "dwait"
  /\ Lock(th, s)
  /\ hpc' = [hpc EXCEPT ![th][s] = "dcs"]
  /\ UNCHANGED <<globalVersionNumber, localVersionNumbers, params_, grads_, paramsAvg_,
                 threadVars, slotArg, currVersion, pastVersion, latestVersion, pushArg, poolVars,
                 shardingVars, runVars, backendVars, graphVars,
                 pureVars, serveVars>>

\* slotArg when the vector handed to fetchParams is paramsAvg_
ShadowArg == -1

FetchSource_Params(th, s) == params_[0][s]
\* params[idx] of the vector handed to fetchParams
FetchSource(th, s) ==
  IF slotArg[th] = ShadowArg THEN paramsAvg_[s] ELSE params_[slotArg[th]][s]

StoreAfterCopy_Reversed(th, s, slice) ==
  IF slotArg[th] = ShadowArg
    THEN <<params_, [paramsAvg_ EXCEPT ![s] = slice.base]>>
    ELSE <<[params_ EXCEPT ![slotArg[th]][s] = slice.base], paramsAvg_>>
\* a->copyFrom(b) writes a and leaves b: params_ and paramsAvg_ after the copy
\* into the slice of oldParams
StoreAfterCopy(th, s, slice) == <<params_, paramsAvg_>>

\* oldParams->subtensor(pos, params[idx]->size())->copyFrom(params[idx])
DenseCopy(th, s) ==
  /\ ~crashed
  /\ hpc[th][s] = "dcs"
  /\ replica' = [replica EXCEPT ![th][s] =
                   [base |-> FetchSource(th, s), patches |-> << >>]]
  /\ params_' = StoreAfterCopy(th, s, replica[th][s])[1]
  /\ paramsAvg_' = StoreAfterCopy(th, s, replica[th][s])[2]
  /\ Unlock(th, s)
  /\ hpc' = [hpc EXCEPT ![th][s] = "done"]
  /\ UNCHANGED <<globalVersionNumber, localVersionNumbers, grads_,
                 pc, bound,
                 hasDropper, my_id, t, num_seen_words, accGradients,
                 graphGrads, window, batch, slotArg, currVersion, pastVersion, latestVersion,
                 pushArg, poolVars, shardingVars, runVars, backendVars, graphVars,
                 pureVars, serveVars>>

\* ------------------------------------------------------------ sparseFetchParams
SparseBase_Local(global, local) == local % history_size_
\* currVersion: the history slot taken as the base of the delta
SparseBase(global, local) ==
  IF global - local >= history_size_
    THEN (1 + global) % history_size_
    ELSE local % history_size_

AlreadyLatest_Never(global, local) == FALSE
\* if(globalVersionNumber[idx] == localVersionNumbers[worker_id][idx]) return;
AlreadyLatest(global, local) == global = local

\* lines 448-462: the guard is taken and the slots are chosen; a worker that is
\* up to date returns, which releases the guard
SparseAcquire(th, s) ==
  LET global == globalVersionNumber[s]
      local == localVersionNumbers[my_id[th]][s]
  IN
  /\ ~crashed
  /\ hpc[th][s] = "sfwait"
  /\ Free(s)
  /\ IF AlreadyLatest(global, local)
       THEN /\ hpc' = [hpc EXCEPT ![th][s] = "done"]
            /\ UNCHANGED <<currVersion, latestVersion, shardSync_>>
       ELSE /\ latestVersion' = [latestVersion EXCEPT ![th][s] = global % history_size_]
            /\ currVersion' = [currVersion EXCEPT ![th][s] = SparseBase(global, local)]
            /\ hpc' = [hpc EXCEPT ![th][s] = "sfdelta"]
            /\ Lock(th, s)
  /\ UNCHANGED <<globalVersionNumber, localVersionNumbers, params_, grads_, paramsAvg_,
                 threadVars, slotArg, pastVersion, pushArg, poolVars, shardingVars, runVars, backendVars, graphVars,
                 pureVars, serveVars>>

\* the sparsified delta of two buffers, scatter-added into a replica slice
Patch(kind, a, b) == [kind |-> kind, a |-> a, b |-> b]
ScatterAdd(slice, from, to) ==
  [slice EXCEPT !.patches = Append(@, Patch("delta", from, to))]

RecordedVersion_Ahead(s) == globalVersionNumber[s] + 1
\* localVersionNumbers[worker_id][idx] = globalVersionNumber[idx]
RecordedVersion(s) == globalVersionNumber[s]

\* lines 464-480: delta, dropGraph, scatterAdd, record the version
SparseApply(th, s) ==
  /\ ~crashed
  /\ hpc[th][s] = "sfdelta"
  /\ replica' = [replica EXCEPT ![th][s] =
                   ScatterAdd(@, params_[currVersion[th][s]][s],
                              params_[latestVersion[th][s]][s])]
  /\ localVersionNumbers' =
       [localVersionNumbers EXCEPT ![my_id[th]][s] = RecordedVersion(s)]
  /\ Unlock(th, s)
  /\ hpc' = [hpc EXCEPT ![th][s] = "done"]
  /\ currVersion' = [currVersion EXCEPT ![th][s] = 0]
  /\ latestVersion' = [latestVersion EXCEPT ![th][s] = 0]
  /\ UNCHANGED <<globalVersionNumber, params_, grads_, paramsAvg_, pc, bound, hasDropper,
                 my_id, t,
                 num_seen_words, accGradients, graphGrads, window, batch, slotArg,
                 pastVersion, pushArg, poolVars, shardingVars, runVars, backendVars, graphVars,
                 pureVars, serveVars>>

\* fetchDropper[worker_id][idx] when the table has no entry worker_id yet:
\* an out-of-range read, which may fault (or find the entry and go on as above)
SparseFetchFault(th, s) ==
  /\ ~crashed
  /\ hpc[th][s] = "sfdelta"
  /\ my_id[th] >= Len(fetchDropper)
  /\ crashed' = TRUE
  /\ UNCHANGED <<storeVars, threadVars, helperVars, cfg, first_, submitted, queue,
                 staticI, fetchDropper, pushes, shardingVars, runVars, backendVars, graphVars,
                 pureVars, serveVars>>

\* for(auto&& t : threads) t.join();
JoinFetch(th) ==
  /\ ~crashed
  /\ pc[th] = "joinFetch"
  /\ \A s \in Shards : hpc[th][s] = "done"
  /\ hpc' = [hpc EXCEPT ![th] = AllHelpers("none")]
  /\ slotArg' = [slotArg EXCEPT ![th] = 0]
  /\ pc' = [pc EXCEPT ![th] = "compute"]
  /\ UNCHANGED <<storeVars, bound, hasDropper, my_id, t, num_seen_words, accGradients,
                 graphGrads, window, batch, replica, currVersion, pastVersion,
                 latestVersion, pushArg, poolVars, shardingVars, runVars, backendVars, graphVars,
                 pureVars, serveVars>>

\* ------------------------------------------------------------ compute
\* tau_ > 1: gradients = accGradients, else gradients = graph->params()->grads()
gradients(th) == IF tau_ > 1 THEN accGradients[th] ELSE graphGrads[th]

\* Element(_1 += _2, accGradients, graph->params()->grads())
Accumulate(acc, g) == acc \o g

\* num_seen_words after the step's batch
SeenWords(seen, words) == IF tau_ > 1 THEN seen + words ELSE words

\* lines 749-782: forward, backward, accumulate, t++
Compute(th) ==
  LET g == <<Token(my_id[th], t[th])>> IN
  /\ ~crashed
  /\ pc[th] = "compute"
  /\ graphGrads' = [graphGrads EXCEPT ![th] = g]
  /\ accGradients' =
       [accGradients EXCEPT ![th] =
          IF tau_ > 1 THEN Accumulate(IF t[th] = 0 THEN NoGradient ELSE @, g) ELSE @]
  /\ num_seen_words' = [num_seen_words EXCEPT ![th] = SeenWords(@, batch[th])]
  /\ window' = [window EXCEPT ![th] = Append(@, <<g, batch[th]>>)]
  /\ t' = [t EXCEPT ![th] = @ + 1]
  /\ forwardCalls' = [forwardCalls EXCEPT ![my_id[th]] = @ + 1]
  /\ backwardCalls' = [backwardCalls EXCEPT ![my_id[th]] = @ + 1]
  /\ pc' = [pc EXCEPT ![th] = "flush"]
  /\ UNCHANGED <<storeVars, bound, hasDropper, my_id, batch, replica, helperVars,
                 poolVars, shardingVars, runVars, backendVars,
                 pureVars, serveVars>>

\* ------------------------------------------------------------ flush
\* the task returns and the thread is idle
TaskReturns(th) ==
  /\ batch' = [batch EXCEPT ![th] = 0]
  /\ pc' = [pc EXCEPT ![th] = "idle"]

AfterFlush_OnlyAfterPush(th) ==
  IF cfg.scheduler.set /\ t[th] % tau_ = 0
    THEN /\ pc' = [pc EXCEPT ![th] = "sched"]
         /\ batch' = batch
    ELSE TaskReturns(th)
\* if(scheduler_) { ... }: after the flush comes the scheduler section
AfterFlush(th) ==
  IF cfg.scheduler.set
    THEN /\ pc' = [pc EXCEPT ![th] = "sched"]
         /\ batch' = batch
    ELSE TaskReturns(th)

FlushDue_Always(th) == TRUE
\* if(t % tau_ == 0), t already incremented
FlushDue(th) == t[th] % tau_ = 0

\* t % tau_ != 0 after the increment: nothing is pushed
SkipPush(th) ==
  /\ ~crashed
  /\ pc[th] = "flush"
  /\ ~FlushDue(th)
  /\ AfterFlush(th)
  /\ UNCHANGED <<storeVars, bound, hasDropper, my_id, t, num_seen_words, accGradients,
                 graphGrads, window, replica, helperVars, poolVars, shardingVars, runVars, backendVars, graphVars,
                 pureVars, serveVars>>

\* pushGradients(gradients, num_seen_words)
StartDensePush(th) ==
  /\ ~crashed
  /\ pc[th] = "flush"
  /\ FlushDue(th)
  /\ ~drop_rate_
  /\ pushArg' = [pushArg EXCEPT ![th] =
                   [g |-> gradients(th), sparse |-> FALSE, words |-> num_seen_words[th]]]
  /\ hpc' = [hpc EXCEPT ![th] = AllHelpers("pwait")]
  /\ pc' = [pc EXCEPT ![th] = "joinPush"]
  /\ UNCHANGED <<storeVars, bound, hasDropper, my_id, t, num_seen_words, accGradients,
                 graphGrads, window, batch, replica, slotArg, currVersion, pastVersion,
                 latestVersion, poolVars, shardingVars, runVars, backendVars, graphVars,
                 pureVars, serveVars>>

\* dropper->dropGraph(gradients, localSparseGrads_[my_id], drop_rate_);
\* sparsePush(localSparseGrads_[my_id], num_seen_words) with two graphs or more
StartSparsePush(th) ==
  /\ ~crashed
  /\ pc[th] = "flush"
  /\ FlushDue(th)
  /\ drop_rate_
  /\ NumDevices >= 2
  /\ pushArg' = [pushArg EXCEPT ![th] =
                   [g |-> gradients(th), sparse |-> TRUE, words |-> num_seen_words[th]]]
  /\ hpc' = [hpc EXCEPT ![th] = AllHelpers("pwait")]
  /\ pc' = [pc EXCEPT ![th] = "joinPush"]
  /\ UNCHANGED <<storeVars, bound, hasDropper, my_id, t, num_seen_words, accGradients,
                 graphGrads, window, batch, replica, slotArg, currVersion, pastVersion,
                 latestVersion, poolVars, shardingVars, runVars, backendVars, graphVars,
                 pureVars, serveVars>>

\* what opt_->update(graphs_[0], ...) applies: the gradient buffer of the graph
SingleGraphGradient(th) == [g |-> graphGrads[th], sparse |-> FALSE]

ResetWords_Keep(seen) == seen
\* lines 792-796 after a push
ResetWords(seen) == 0
ResetAccumulator(acc) == IF tau_ > 1 THEN NoGradient ELSE acc

\* sparsePush with one graph: opt_->update(graphs_[0] [, scale]); then the reset
SingleGraphPush(th) ==
  /\ ~crashed
  /\ pc[th] = "flush"
  /\ FlushDue(th)
  /\ drop_rate_
  /\ NumDevices < 2
  /\ replica' = [replica EXCEPT ![th][0].patches =
                   Append(@, Patch("local", SingleGraphGradient(th),
                                   Update(SingleGraphGradient(th), num_seen_words[th])))]
  /\ num_seen_words' = [num_seen_words EXCEPT ![th] = ResetWords(@)]
  /\ accGradients' = [accGradients EXCEPT ![th] = ResetAccumulator(@)]
  /\ window' = [window EXCEPT ![th] = << >>]
  /\ AfterFlush(th)
  /\ UNCHANGED <<storeVars, bound, hasDropper, my_id, t, graphGrads, helperVars,
                 poolVars, shardingVars, runVars, backendVars, graphVars,
                 pureVars, serveVars>>

\* ------------------------------------------------------------ pushGradients / sparsePush
\* pushGradients: grads_[idx]->copyFrom(newGrads->subtensor(pos, size));
\* sparsePush: subtensor, sparseGrads_[idx]->copyFrom, toDense(grads_[idx], -pos)
StagedGradient(th) == [g |-> pushArg[th].g, sparse |-> pushArg[th].sparse]

\* sparsePush always keeps history; pushGradients only if(history_size_ > 1)
KeepsHistory(th) == pushArg[th].sparse \/ history_size_ > 1

NextVersion_Stuck(v) == v
NextVersion_Skip(v) == v + 2
\* ++globalVersionNumber[idx]
NextVersion(v) == v + 1

CopySource_Next(past) == (past + 1) % history_size_
\* the slot the old buffer is copied from
CopySource(past) == past

\* The guard is taken and the gradient staged; with history kept,
\*   int pastVersion = globalVersionNumber[idx] % history_size_;
\*   int latestVersion = ++globalVersionNumber[idx] % history_size_;
\*   params_[latestVersion][idx]->copyFrom(params_[pastVersion][idx]);
\* The helper is then in the middle of its push, the optimizer update to come.
PushAcquire(th, s) ==
  LET past == globalVersionNumber[s] % history_size_
      version == NextVersion(globalVersionNumber[s])
      latest == version % history_size_
  IN
  /\ ~crashed
  /\ hpc[th][s] = "pwait"
  /\ Lock(th, s)
  /\ grads_' = [grads_ EXCEPT ![s] = StagedGradient(th)]
  /\ IF KeepsHistory(th)
       THEN /\ pastVersion' = [pastVersion EXCEPT ![th][s] = past]
            /\ globalVersionNumber' = [globalVersionNumber EXCEPT ![s] = version]
            /\ latestVersion' = [latestVersion EXCEPT ![th][s] = latest]
            /\ params_' = [params_ EXCEPT ![latest][s] = params_[CopySource(past)][s]]
       ELSE UNCHANGED <<pastVersion, globalVersionNumber, latestVersion, params_>>
  /\ hpc' = [hpc EXCEPT ![th][s] = "pmid"]
  /\ UNCHANGED <<localVersionNumbers, paramsAvg_, threadVars, slotArg, currVersion,
                 pushArg, poolVars, shardingVars, runVars, backendVars, graphVars,
                 pureVars, serveVars>>

UpdateTarget_Past(th, s) == pastVersion[th][s]
\* the slot the optimizer updates in place
UpdateTarget(th, s) == latestVersion[th][s]

\* scheduler_->numberOfBatches() read by a push helper, which holds no lock of
\* the scheduler: while a worker is inside scheduler_->update the read races
\* with the increment and finds the count before or after it
BatchesRead ==
  IF \E other \in Threads : pc[other] = "schedUpdate"
    THEN {numberOfBatches, numberOfBatches + 1}
    ELSE {numberOfBatches}

\* shardOpt_[idx]->update(params_[latestVersion][idx], grads_[idx] [, scale]);
\* if(movingAvg_) updateMovingAverage(paramsAvg_[idx], params_[latestVersion][idx],
\*                                    scheduler_->numberOfBatches());
\* the guard is released at the end of the helper
PushUpdate(th, s) ==
  /\ ~crashed
  /\ hpc[th][s] = "pmid"
  /\ params_' = [params_ EXCEPT ![UpdateTarget(th, s)][s] =
                   OptimizerUpdate(@, grads_[s], pushArg[th].words)]
  /\ IF movingAvg_
       THEN \E batches \in BatchesRead :
              paramsAvg_' = [paramsAvg_ EXCEPT ![s] =
                               updateMovingAverage(@, params_'[latestVersion[th][s]][s],
                                                   batches)]
       ELSE paramsAvg_' = paramsAvg_
  /\ Unlock(th, s)
  /\ pushes' = [pushes EXCEPT ![s] = @ + 1]
  /\ pastVersion' = [pastVersion EXCEPT ![th][s] = 0]
  /\ latestVersion' = [latestVersion EXCEPT ![th][s] = 0]
  /\ hpc' = [hpc EXCEPT ![th][s] = "done"]
  /\ UNCHANGED <<globalVersionNumber, localVersionNumbers, grads_, threadVars, slotArg,
                 currVersion, pushArg, cfg, first_, submitted, queue, staticI,
                 fetchDropper, crashed, shardingVars, runVars, backendVars, graphVars,
                 pureVars, serveVars>>

\* join, then num_seen_words = 0 and, if(tau_ > 1), gradients->set(0)
JoinPush(th) ==
  /\ ~crashed
  /\ pc[th] = "joinPush"
  /\ \A s \in Shards : hpc[th][s] = "done"
  /\ hpc' = [hpc EXCEPT ![th] = AllHelpers("none")]
  /\ pushArg' = [pushArg EXCEPT ![th] = NoPush]
  /\ num_seen_words' = [num_seen_words EXCEPT ![th] = ResetWords(@)]
  /\ accGradients' = [accGradients EXCEPT ![th] = ResetAccumulator(@)]
  /\ window' = [window EXCEPT ![th] = << >>]
  /\ AfterFlush(th)
  /\ UNCHANGED <<storeVars, bound, hasDropper, my_id, t, graphGrads, replica,
                 slotArg, currVersion, pastVersion, latestVersion, poolVars,
                 shardingVars, runVars, backendVars, graphVars,
                 pureVars, serveVars>>

\* ------------------------------------------------------------ scheduler section
UpgradeFree_Shared == TRUE
\* a shared_mutex grants upgrade ownership when no thread has upgrade or
\* exclusive ownership of it
UpgradeFree == schedulerMutex_ = {}

\* boost::upgrade_lock<boost::shared_mutex> lock(schedulerMutex_): one thread at
\* a time owns the upgrade lock; no thread takes the mutex shared, so the
\* upgrade to unique ownership that follows does not wait
SchedulerLock(th) ==
  /\ ~crashed
  /\ pc[th] = "sched"
  /\ UpgradeFree
  /\ schedulerMutex_' = schedulerMutex_ \cup {th}
  /\ pc' = [pc EXCEPT ![th] = "schedUpdate"]
  /\ UNCHANGED <<storeVars, bound, hasDropper, my_id, t, num_seen_words, accGradients,
                 graphGrads, window, batch, replica, helperVars, poolVars, shardingVars,
                 numberOfBatches, destroyed, backendVars, graphVars,
                 pureVars, serveVars>>

\* where the section goes on: to save or validate (first
\* fetchParams(graph->params()->vals(), paramsAvg_) if(movingAvg_)), or to its
\* end, where the lock is released and the task returns
SchedulerGoes(th, what) ==
  IF what = "return"
    THEN /\ schedulerMutex_' = schedulerMutex_ \ {th}
         /\ TaskReturns(th)
         /\ UNCHANGED <<hpc, slotArg>>
    ELSE /\ schedulerMutex_' = schedulerMutex_
         /\ batch' = batch
         /\ IF movingAvg_
              THEN /\ hpc' = [hpc EXCEPT ![th] = AllHelpers("dwait")]
                   /\ slotArg' = [slotArg EXCEPT ![th] = ShadowArg]
                   /\ pc' = [pc EXCEPT ![th] =
                               IF what = "save" THEN "joinSave" ELSE "joinValidate"]
              ELSE /\ pc' = [pc EXCEPT ![th] = what]
                   /\ UNCHANGED <<hpc, slotArg>>

\* scheduler_->saving() and scheduler_->validating() at a batch count
saving(batches) == batches \in cfg.scheduler.saves
validating(batches) == batches \in cfg.scheduler.validates

\* scheduler_->update(cost, batch); then if(scheduler_->saving()), and if not,
\* if(scheduler_->validating())
SchedulerUpdate(th) ==
  /\ ~crashed
  /\ pc[th] = "schedUpdate"
  /\ numberOfBatches' = numberOfBatches + 1
  /\ SchedulerGoes(th, IF saving(numberOfBatches') THEN "save"
                        ELSE IF validating(numberOfBatches') THEN "validate"
                        ELSE "return")
  /\ UNCHANGED <<storeVars, bound, hasDropper, my_id, t, num_seen_words, accGradients,
                 graphGrads, window, replica, currVersion, pastVersion, latestVersion,
                 pushArg, poolVars, shardingVars, destroyed, backendVars, graphVars,
                 pureVars, serveVars>>

\* the helpers of fetchParams(..., paramsAvg_) are joined
JoinShadowFetch(th) ==
  /\ ~crashed
  /\ pc[th] \in {"joinSave", "joinValidate"}
  /\ \A s \in Shards : hpc[th][s] = "done"
  /\ hpc' = [hpc EXCEPT ![th] = AllHelpers("none")]
  /\ slotArg' = [slotArg EXCEPT ![th] = 0]
  /\ pc' = [pc EXCEPT ![th] = IF pc[th] = "joinSave" THEN "save" ELSE "validate"]
  /\ UNCHANGED <<storeVars, bound, hasDropper, my_id, t, num_seen_words, accGradients,
                 graphGrads, window, batch, replica, currVersion, pastVersion,
                 latestVersion, pushArg, poolVars, shardingVars, runVars, backendVars, graphVars,
                 pureVars, serveVars>>

\* this->save(graph): the builder serializes graph->params()->vals()
SerializedParams(th) == replica[th]

\* this->save(graph), then validating()
Save(th) ==
  /\ ~crashed
  /\ pc[th] = "save"
  /\ SchedulerGoes(th, IF validating(numberOfBatches) THEN "validate" ELSE "return")
  /\ UNCHANGED <<storeVars, bound, hasDropper, my_id, t, num_seen_words, accGradients,
                 graphGrads, window, replica, currVersion, pastVersion, latestVersion,
                 pushArg, poolVars, shardingVars, numberOfBatches, destroyed, backendVars, graphVars,
                 pureVars, serveVars>>

\* scheduler_->validate(graph); the section ends
Validate(th) ==
  /\ ~crashed
  /\ pc[th] = "validate"
  /\ SchedulerGoes(th, "return")
  /\ UNCHANGED <<storeVars, bound, hasDropper, my_id, t, num_seen_words, accGradients,
                 graphGrads, window, replica, currVersion, pastVersion, latestVersion,
                 pushArg, poolVars, shardingVars, numberOfBatches, destroyed, backendVars, graphVars,
                 pureVars, serveVars>>

\* ------------------------------------------------------------ destruction
\* the members that own buffers or threads, in the order of their declaration
Members ==
  <<"tmpTensor", "params_", "paramsAlloc_", "grads_", "gradsAlloc_", "paramsAvg_",
    "paramsAllocAvg_", "pool_", "allocators">>

\* the members already destroyed: the last declared is destroyed first
Destroyed == {Members[i] : i \in (Len(Members) - destroyed + 1) .. Len(Members)}

\* ~ThreadPool returns once the queue is drained and every thread is joined
PoolDrained == queue = << >> /\ \A th \in Threads : pc[th] = "idle"

\* the driver has submitted its batches and the graph group goes out of scope:
\* the destructor destroys the next member
DestroyMember ==
  /\ ~crashed
  /\ cfg.destroy
  /\ submitted = cfg.batches
  /\ destroyed < Len(Members)
  /\ Members[Len(Members) - destroyed] = "pool_" => PoolDrained
  /\ destroyed' = destroyed + 1
  /\ UNCHANGED <<storeVars, threadVars, helperVars, poolVars, shardingVars,
                 schedulerMutex_, numberOfBatches, backendVars, graphVars,
                 pureVars, serveVars>>

\* the member whose destruction frees the memory of a buffer: params_, grads_
\* and paramsAvg_ lie in their allocators; tmpTensor comes from newTensor, which
\* keeps the allocator in allocators
Owner(buffer) ==
  CASE buffer = "params_" -> "paramsAlloc_"
    [] buffer = "grads_" -> "gradsAlloc_"
    [] buffer = "paramsAvg_" -> "paramsAllocAvg_"
    [] buffer = "tmpTensor" -> "allocators"

\* the buffers a push or a fetch may touch
StoreBuffers ==
  {"params_", "grads_"} \cup (IF movingAvg_ THEN {"paramsAvg_"} ELSE {})
                        \cup (IF drop_rate_ THEN {"tmpTensor"} ELSE {})

Allocated(buffer) == buffer \notin Destroyed /\ Owner(buffer) \notin Destroyed

\* Element(_1 = _2 - _3, tmpTensor[idx], ...) when the allocator of tmpTensor
\* is already destroyed: a write to freed memory, which may fault (or go on as
\* SparseApply does)
ScratchFault(th, s) ==
  /\ ~crashed
  /\ hpc[th][s] = "sfdelta"
  /\ ~Allocated("tmpTensor")
  /\ crashed' = TRUE
  /\ UNCHANGED <<storeVars, threadVars, helperVars, cfg, first_, submitted, queue,
                 staticI, fetchDropper, pushes, shardingVars, runVars, backendVars, graphVars,
                 pureVars, serveVars>>

\* ------------------------------------------------------------ specification
Next ==
  \/ update
  \/ \E th \in Threads : TakeTask(th)
  \/ \E th \in Threads : Bind(th)
  \/ \E th \in Threads : CreateDropper(th)
  \/ \E th \in Threads : SkipFetch(th)
  \/ \E th \in Threads : StartDenseFetch(th)
  \/ \E th \in Threads : StartSparseFetch(th)
  \/ \E th \in Threads, s \in Shards : DenseAcquire(th, s)
  \/ \E th \in Threads, s \in Shards : DenseCopy(th, s)
  \/ \E th \in Threads, s \in Shards : SparseAcquire(th, s)
  \/ \E th \in Threads, s \in Shards : SparseApply(th, s)
  \/ \E th \in Threads, s \in Shards : SparseFetchFault(th, s)
  \/ \E th \in Threads, s \in Shards : ScratchFault(th, s)
  \/ \E th \in Threads : JoinFetch(th)
  \/ \E th \in Threads : Compute(th)
  \/ \E th \in Threads : SkipPush(th)
  \/ \E th \in Threads : StartDensePush(th)
  \/ \E th \in Threads : StartSparsePush(th)
  \/ \E th \in Threads : SingleGraphPush(th)
  \/ \E th \in Threads, s \in Shards : PushAcquire(th, s)
  \/ \E th \in Threads, s \in Shards : PushUpdate(th, s)
  \/ \E th \in Threads : JoinPush(th)
  \/ \E th \in Threads : SchedulerLock(th)
  \/ \E th \in Threads : SchedulerUpdate(th)
  \/ \E th \in Threads : JoinShadowFetch(th)
  \/ \E th \in Threads : Save(th)
  \/ \E th \in Threads : Validate(th)
  \/ DestroyMember

Spec == Init /\ [][Next]_vars

\* ------------------------------------------------------------ sharding, index by index
\* shardSize_ = ceil(totalSize / devices_.size()): the division is an integer
\* division, which ceil() leaves as it is
ShardSize(total, n) == total \div n

Min(a, b) == IF a < b THEN a ELSE b

\* the store model's variables while the sharding model runs
StoreIdle == Constructed(Cfg(1, FALSE, 1, FALSE, FALSE, NoScheduler, 1, FALSE, {1}, FALSE))

InitSharding ==
  /\ StoreIdle
  /\ BackendIdle
  /\ PureIdle
  /\ ServeIdle
  /\ shStage = "start"
  /\ shTotal \in 1 .. MaxParams
  /\ shDevices \in 1 .. MaxShardDevices
  /\ shardSize_ = 0 /\ shRemaining = 0 /\ shPos = 0
  /\ shSizes = << >> /\ shStarts = << >>
  /\ fpIdx = 0 /\ fpPos = 0 /\ fpCovered = {}
  /\ spEntries = {} /\ spIdx = 0 /\ spPos = 0 /\ spDelivered = {}

\* execute(): int totalSize = ...->size(); shardSize_ = ...; int pos = 0
ShardingBegin ==
  /\ shStage = "start"
  /\ shRemaining' = shTotal
  /\ shardSize_' = ShardSize(shTotal, shDevices)
  /\ shPos' = 0
  /\ shStage' = "sharding"
  /\ UNCHANGED <<storeVars, threadVars, helperVars, poolVars, runVars, shTotal, shDevices,
                 shSizes, shStarts, fpIdx, fpPos, fpCovered, backendVars, graphVars,
                 spEntries, spIdx, spPos, spDelivered,
                 pureVars, serveVars>>

\* one round of for(auto device : devices_): size = min(shardSize_, totalSize);
\* totalSize -= size; param->copyFrom(...->subtensor(pos, size)); pos += size
ShardingStep ==
  LET size == Min(shardSize_, shRemaining) IN
  /\ shStage = "sharding"
  /\ shRemaining' = shRemaining - size
  /\ shSizes' = Append(shSizes, size)
  /\ shStarts' = Append(shStarts, shPos)
  /\ shPos' = shPos + size
  /\ shStage' = IF Len(shSizes') = shDevices THEN "sharded" ELSE "sharding"
  /\ UNCHANGED <<storeVars, threadVars, helperVars, poolVars, runVars, shTotal, shDevices,
                 shardSize_, fpIdx, fpPos, fpCovered, backendVars, graphVars,
                 spEntries, spIdx, spPos, spDelivered,
                 pureVars, serveVars>>

\* fetchParams, helper idx: oldParams->subtensor(pos, params[idx]->size())
\*   ->copyFrom(params[idx]); the loop goes on with pos += shardSize_
FetchStep ==
  LET size == shSizes[fpIdx + 1]
      from == shStarts[fpIdx + 1]
  IN
  /\ shStage = "sharded"
  /\ fpCovered' = fpCovered \cup {<<fpPos + k, from + k>> : k \in 0 .. (size - 1)}
  /\ fpPos' = fpPos + shardSize_
  /\ fpIdx' = fpIdx + 1
  /\ shStage' = IF fpIdx' = shDevices THEN "fetched" ELSE "sharded"
  /\ UNCHANGED <<storeVars, threadVars, helperVars, poolVars, runVars, shTotal, shDevices,
                 shardSize_, shRemaining, shPos, shSizes, shStarts, backendVars, graphVars,
                 spEntries, spIdx, spPos, spDelivered,
                 pureVars, serveVars>>

\* newGrads->subtensor(pos, size, idx): the entries of a sparse tensor whose
\* index lies in [pos, pos + size), with their indices as they are
Subtensor(entries, pos, size) == {i \in entries : pos <= i /\ i < pos + size}

\* sparseGrads_[idx]->toDense(grads_[idx], offset): entry i is written at
\* position i + offset
ToDense(entries, offset) == {<<i + offset, i>> : i \in entries}

\* sparsePush(newGrads, batch_words): with fewer than two graphs
\* opt_->update(graphs_[0]) and nothing of newGrads reaches a shard; else
\* int pos = 0 and one helper per device
SparsePushBegin ==
  /\ shStage = "fetched"
  /\ spEntries' \in SUBSET (0 .. (shTotal - 1))
  /\ spIdx' = 0 /\ spPos' = 0 /\ spDelivered' = {}
  /\ shStage' = IF shDevices < 2 THEN "pushed" ELSE "pushing"
  /\ UNCHANGED <<storeVars, threadVars, helperVars, poolVars, runVars, shTotal, shDevices,
                 shardSize_, shRemaining, shPos, shSizes, shStarts, fpIdx, fpPos,
                 fpCovered, backendVars, graphVars,
                 pureVars, serveVars>>

\* sparsePush, helper idx: subGrad = newGrads->subtensor(pos,
\* grads_[idx]->size(), idx); sparseGrads_[idx]->copyFrom(subGrad);
\* sparseGrads_[idx]->toDense(grads_[idx], -pos); the loop goes on with
\* pos += shardSize_.  grads_[idx] has the size of params_[0][idx].
SparsePushStep ==
  LET size == shSizes[spIdx + 1]
      subGrad == Subtensor(spEntries, spPos, size)
  IN
  /\ shStage = "pushing"
  /\ spDelivered' = spDelivered \cup
                      {<<spIdx, w[1], w[2]>> : w \in ToDense(subGrad, 0 - spPos)}
  /\ spPos' = spPos + shardSize_
  /\ spIdx' = spIdx + 1
  /\ shStage' = IF spIdx' = shDevices THEN "pushed" ELSE "pushing"
  /\ UNCHANGED <<storeVars, threadVars, helperVars, poolVars, runVars, shTotal, shDevices,
                 shardSize_, shRemaining, shPos, shSizes, shStarts, fpIdx, fpPos,
                 fpCovered, backendVars, graphVars, spEntries,
                 pureVars, serveVars>>

NextSharding ==
  ShardingBegin \/ ShardingStep \/ FetchStep \/ SparsePushBegin \/ SparsePushStep

SpecSharding == InitSharding /\ [][NextSharding]_vars

RECURSIVE SumSeq(_)
SumSeq(q) == IF q = << >> THEN 0 ELSE Head(q) + SumSeq(Tail(q))

\* C2: the shards partition the parameter vector: the sizes sum to the total,
\* shard i starts at i * shardSize_, and a dense fetch writes every index of
\* dest, each from the parameter of the same index.
C2_ShardsPartitionParameters ==
  shStage = "fetched" =>
    /\ SumSeq(shSizes) = shTotal
    /\ \A i \in 1 .. shDevices : shStarts[i] = (i - 1) * shardSize_
    /\ fpCovered = {<<j, j>> : j \in 0 .. (shTotal - 1)}

\* ------------------------------------------------------------ sparse fetch applied to a store
\* The task calls sparseFetchParams only after the worker's own push, so a
\* worker is never up to date when it fetches.  Here sparseFetchParams is
\* called on a store of two shards of any versions, by a worker whose last-seen
\* versions are any versions not above them.
FetchConfig == Cfg(2, TRUE, 1, TRUE, FALSE, NoScheduler, 1, FALSE, {1}, FALSE)

\* the buffer a shard holds after v pushes of the configuration's one gradient
UnitGradient == [g |-> <<Token(0, 0)>>, sparse |-> TRUE]
VersionContents(v) == [i \in 1 .. v |-> [g |-> UnitGradient, scale |-> <<1>>]]

\* the version history slot k holds when the shard is at version v
RingVersion(v, k, H) ==
  LET held == {u \in 0 .. v : u % H = k} IN
  IF held = {} THEN 0 ELSE CHOOSE u \in held : \A o \in held : o <= u

InitFetch ==
  LET H == HistorySize(2, TRUE)
      ths == {0, 1}
  IN
  /\ ShardingIdle
  /\ BackendIdle
  /\ PureIdle
  /\ ServeIdle
  /\ cfg = FetchConfig
  /\ first_ = FALSE
  /\ submitted = 1
  /\ queue = << >>
  /\ staticI = 2
  /\ fetchDropper = <<0, 1>>
  /\ \E v \in [ths -> 0 .. MaxVersion] :
       /\ v[0] - v[1] \in (0 - 2) .. 2
       /\ globalVersionNumber = v
       /\ params_ = [h \in 0 .. (H - 1) |->
                       [s \in ths |-> VersionContents(RingVersion(v[s], h, H))]]
       /\ pushes = v
       /\ \E l \in [ths -> 0 .. MaxVersion] :
            /\ \A s \in ths : l[s] <= v[s]
            /\ localVersionNumbers = [w \in ths |-> IF w = 0 THEN l ELSE v]
  /\ grads_ = [s \in ths |-> NoGradient]
  /\ paramsAvg_ = << >>
  /\ shardSync_ = [s \in ths |-> {}]
  /\ pc = [th \in ths |-> IF th = 0 THEN "fetch" ELSE "idle"]
  /\ bound = [th \in ths |-> TRUE]
  /\ hasDropper = [th \in ths |-> TRUE]
  /\ my_id = [th \in ths |-> th]
  /\ t = [th \in ths |-> 1]
  /\ num_seen_words = [th \in ths |-> 0]
  /\ accGradients = [th \in ths |-> NoGradient]
  /\ graphGrads = [th \in ths |-> NoGradient]
  /\ window = [th \in ths |-> << >>]
  /\ batch = [th \in ths |-> IF th = 0 THEN 1 ELSE 0]
  /\ replica = [th \in ths |-> [s \in ths |-> FreshReplica]]
  /\ hpc = [th \in ths |-> [s \in ths |-> "none"]]
  /\ slotArg = [th \in ths |-> 0]
  /\ currVersion = [th \in ths |-> [s \in ths |-> 0]]
  /\ pastVersion = [th \in ths |-> [s \in ths |-> 0]]
  /\ latestVersion = [th \in ths |-> [s \in ths |-> 0]]
  /\ pushArg = [th \in ths |-> NoPush]
  /\ crashed = FALSE
  /\ schedulerMutex_ = {}
  /\ numberOfBatches = 0
  /\ destroyed = 0
  /\ forwardCalls = [r \in ths |-> 2]
  /\ backwardCalls = [r \in ths |-> 1]

NextFetch ==
  \/ \E th \in Threads : StartSparseFetch(th)
  \/ \E th \in Threads, s \in Shards : SparseAcquire(th, s)
  \/ \E th \in Threads, s \in Shards : SparseApply(th, s)
  \/ \E th \in Threads : JoinFetch(th)

SpecFetch == InitFetch /\ [][NextFetch]_vars

\* ------------------------------------------------------------ the Triton backend: async mode
MaxInstances == 2
MaxExecutes == 3

\* strings are sequences of characters
True == <<"t", "r", "u", "e">>
False == <<"f", "a", "l", "s", "e">>

\* the letters that occur in the values, upper case and lower case
UpperCase == <<"A", "E", "F", "L", "N", "O", "R", "S", "T", "U", "Y">>
LowerCase == <<"a", "e", "f", "l", "n", "o", "r", "s", "t", "u", "y">>

ToLower_Same(c) == c
\* ::tolower
ToLower(c) ==
  IF \E i \in 1 .. Len(UpperCase) : UpperCase[i] = c
    THEN LowerCase[CHOOSE i \in 1 .. Len(UpperCase) : UpperCase[i] = c]
    ELSE c

\* std::transform(begin, end, begin, ::tolower)
Transform(str) == [i \in 1 .. Len(str) |-> ToLower(str[i])]

\* the spellings of a lower-case word with any of its letters in upper case
Spellings(word) ==
  {[i \in 1 .. Len(word) |->
      IF i \in upper
        THEN UpperCase[CHOOSE k \in 1 .. Len(LowerCase) : LowerCase[k] = word[i]]
        ELSE word[i]] : upper \in SUBSET (1 .. Len(word))}

\* the values of parameters["async"].string_value the model is loaded with
AsyncValues ==
  {<< >>} \cup Spellings(True) \cup Spellings(False)
  \cup {<<"t", "r", "u">>, <<"t", "r", "u", "e", "e">>, <<" ", "t", "r", "u", "e">>,
         <<"t", "r", "u", "e", " ">>, <<"F", "A", "L", "S">>, <<"y", "e", "s">>,
         <<"N", "o">>, <<"o", "n">>, <<"1">>, <<"0">>}

\* config.pbtxt: without parameters, with parameters but no "async", or with
\* an "async" parameter and its string_value
ModelConfigs ==
  {[parameters |-> FALSE, async |-> FALSE, string_value |-> << >>],
   [parameters |-> TRUE, async |-> FALSE, string_value |-> << >>]}
  \cup {[parameters |-> TRUE, async |-> TRUE, string_value |-> v] : v \in AsyncValues}

\* ModelState::Create and SetMarianConfigPath have run for a model
InitAsync ==
  /\ StoreIdle
  /\ ShardingIdle
  /\ PureIdle
  /\ ServeIdle
  /\ model_config_ \in ModelConfigs
  /\ modelState = "created"
  /\ modelError = "none"
  /\ async_mode_ = "unset"
  /\ instances = << >>
  /\ served = << >>

\* return_async_mode after the two Find calls and MemberAsString
ReturnAsyncMode(config) ==
  IF config.parameters /\ config.async THEN config.string_value ELSE << >>

\* !empty() && != "true" && != "false"
Unsupported(mode) == mode # << >> /\ mode # True /\ mode # False

\* async_mode_ = return_async_mode == "true" || return_async_mode.empty()
AsyncMode(mode) == IF mode = True \/ mode = << >> THEN "async" ELSE "sync"

\* TRITONBACKEND_ModelInitialize: SetAsyncMode, and on success ModelSetState
ModelInitialize ==
  /\ modelState = "created"
  /\ LET mode == Transform(ReturnAsyncMode(model_config_)) IN
       IF Unsupported(mode)
         THEN /\ modelState' = "failed"
              /\ modelError' = "UNSUPPORTED"
              /\ async_mode_' = async_mode_
         ELSE /\ modelState' = "initialized"
              /\ modelError' = "none"
              /\ async_mode_' = AsyncMode(mode)
  /\ UNCHANGED <<storeVars, threadVars, helperVars, poolVars, shardingVars, runVars,
                 model_config_, instances, served, graphVars,
                 pureVars, serveVars>>

\* TRITONBACKEND_ModelInstanceInitialize: bool async = model_state->asyncMode()
ModelInstanceInitialize ==
  /\ modelState = "initialized"
  /\ Len(instances) < MaxInstances
  /\ instances' = Append(instances, async_mode_)
  /\ UNCHANGED <<storeVars, threadVars, helperVars, poolVars, shardingVars, runVars,
                 model_config_, modelState, modelError, async_mode_, served, graphVars,
                 pureVars, serveVars>>

\* the function TRITONBACKEND_ModelInstanceExecute hands the requests to
ServePath(async) == IF async = "async" THEN "serveRequestsAsync" ELSE "serveRequestsSync"

\* TRITONBACKEND_ModelInstanceExecute on instance i
ModelInstanceExecute(i) ==
  /\ Len(served) < MaxExecutes
  /\ served' = Append(served, <<i, ServePath(instances[i])>>)
  /\ UNCHANGED <<storeVars, threadVars, helperVars, poolVars, shardingVars, runVars,
                 model_config_, modelState, modelError, async_mode_, instances, graphVars,
                 pureVars, serveVars>>

NextAsync ==
  \/ ModelInitialize
  \/ ModelInstanceInitialize
  \/ \E i \in 1 .. Len(instances) : ModelInstanceExecute(i)

SpecAsync == InitAsync /\ [][NextAsync]_vars

\* ------------------------------------------------------------ updateMovingAverage on numbers
MaxSteps == 3
MaxLen == 2

\* updateMovingAverage(paramsAvg, params, batches) of a group whose mvDecay_
\* is mvDecay: the decay it computes and paramsAvg as it leaves it,
\* Element(_1 = (decay * _1) + ((1.f - decay) * _2), paramsAvg, params)
MovingAverage(mvDecay, paramsAvg, params, batches) ==
  LET decay == DecayOf(mvDecay, batches) IN
  [called |-> TRUE, decay |-> decay,
   paramsAvg |->
     [i \in 1 .. Len(paramsAvg) |->
        FAdd(FMul(decay, paramsAvg[i]), FMul(FSub(<<1, 1>>, decay), params[i]))]]

\* the buffers explored
Buffers(len) == [1 .. len -> {<<0 - 1, 1>>, <<0, 1>>, <<1, 2>>, <<3, 1>>}]

InitAverage ==
  /\ StoreIdle
  /\ ShardingIdle
  /\ BackendIdle
  /\ ServeIdle
  /\ \E len \in 1 .. MaxLen :
       fnIn \in [mvDecay : {<<0, 1>>, <<1, 20>>, <<1, 10>>, <<1, 2>>, <<9999, 10000>>},
                 batches : 0 .. MaxSteps,
                 paramsAvg : Buffers(len), params : Buffers(len)]
  /\ fnOut = [called |-> FALSE]

\* a push helper calls updateMovingAverage(paramsAvg_[idx], params_[..][idx],
\* scheduler_->numberOfBatches())
CallUpdateMovingAverage ==
  /\ ~fnOut.called
  /\ fnOut' = MovingAverage(fnIn.mvDecay, fnIn.paramsAvg, fnIn.params, fnIn.batches)
  /\ UNCHANGED <<storeVars, threadVars, helperVars, poolVars, shardingVars, runVars,
                 backendVars, graphVars, fnIn, serveVars>>

NextAverage == CallUpdateMovingAverage

SpecAverage == InitAverage /\ [][NextAverage]_vars

\* ------------------------------------------------------------ IRegulariser::getTotalPenalty
MaxPenalties == 3
MaxPenalty == 2

RECURSIVE SumPenalties(_, _, _)
\* the loop over partialPenalties_, in the order of the map's keys: the first
\* penalty is taken as it is, if(!totalPenalty), every later one is added
\* multiplied by lambda_; << >> is an Expr that holds no node
SumPenalties(lambda, totalPenalty, partialPenalties) ==
  IF partialPenalties = << >> THEN totalPenalty
  ELSE SumPenalties(lambda,
                    IF totalPenalty = << >>
                      THEN partialPenalties[1]
                      ELSE FAdd(totalPenalty, FMul(lambda, partialPenalties[1])),
                    Tail(partialPenalties))

\* the values of the partial penalties explored
PenaltyValues == {<<v, 1>> : v \in 0 .. MaxPenalty}

\* getTotalPenalty(): return lambda_ * totalPenalty.  With no partial penalty
\* recorded totalPenalty holds no node and the product reads through a null
\* pointer: it faults or yields some value
getTotalPenalty(lambda, partialPenalties) ==
  LET totalPenalty == SumPenalties(lambda, << >>, partialPenalties) IN
  IF totalPenalty = << >>
    THEN {[called |-> TRUE, fault |-> TRUE, value |-> <<0, 1>>]}
         \cup {[called |-> TRUE, fault |-> FALSE, value |-> v] : v \in PenaltyValues}
    ELSE {[called |-> TRUE, fault |-> FALSE, value |-> FMul(lambda, totalPenalty)]}

InitPenalty ==
  /\ StoreIdle
  /\ ShardingIdle
  /\ BackendIdle
  /\ ServeIdle
  /\ fnIn \in [lambda : {<<0, 1>>, <<1, 2>>, <<1, 1>>, <<2, 1>>},
               partialPenalties :
                 UNION {[1 .. n -> PenaltyValues] : n \in 0 .. MaxPenalties}]
  /\ fnOut = [called |-> FALSE]

\* regulariser->getTotalPenalty()
CallGetTotalPenalty ==
  /\ ~fnOut.called
  /\ fnOut' \in getTotalPenalty(fnIn.lambda, fnIn.partialPenalties)
  /\ UNCHANGED <<storeVars, threadVars, helperVars, poolVars, shardingVars, runVars,
                 backendVars, graphVars, fnIn, serveVars>>

NextPenalty == CallGetTotalPenalty

SpecPenalty == InitPenalty /\ [][NextPenalty]_vars

\* ------------------------------------------------------------ the Triton backend: serving a batch
MaxRequests == 3
MaxSentences == 2
MaxFaults == 1

\* characters are numbers: '\n', and the '\0' that ends a C string
NewLine == 0
Nul == -1

\* the text of sentence k of request r
Sentence(r, k) == <<10 * (r + 1) + k>>

RECURSIVE Join(_)
\* the lines with a '\n' between one and the next
Join(lines) ==
  IF lines = << >> THEN << >>
  ELSE IF Len(lines) = 1 THEN lines[1]
  ELSE lines[1] \o <<NewLine>> \o Join(Tail(lines))

RECURSIVE Split(_)
\* the text cut at every '\n' (strchr(pos, '\n')): one line more than it has '\n'
Split(text) ==
  IF \A i \in 1 .. Len(text) : text[i] # NewLine
    THEN <<text>>
    ELSE LET i == CHOOSE i \in 1 .. Len(text) :
                    text[i] = NewLine /\ \A j \in 1 .. (i - 1) : text[j] # NewLine
         IN <<SubSeq(text, 1, i - 1)>> \o Split(SubSeq(text, i + 1, Len(text)))

\* std::count(s.begin(), s.end(), '\n')
CountNewLines(text) == Cardinality({i \in 1 .. Len(text) : text[i] = NewLine})

\* the content of the input buffers of request r, after the 4 bytes of length,
\* and what is read from a buffer that could not be read
RequestText(r) == Join([k \in 1 .. svRequests[r + 1].count |-> Sentence(r, k - 1)])
GarbageText(r) == Join([k \in 1 .. svRequests[r + 1].count |-> <<k>>])

\* Marian's translation of one sentence
Translation(sentence) ==
  IF sentence \in svEmptied THEN << >> ELSE [i \in 1 .. Len(sentence) |-> sentence[i] + 100]

\* the sentences Marian makes of the input: its lines, none if it is empty
MarianBatch(text) == IF text = << >> THEN << >> ELSE Split(text)

\* translate(marian, text): the translations of the lines, joined by '\n'
Translate(text) ==
  LET lines == MarianBatch(text) IN Join([i \in 1 .. Len(lines) |-> Translation(lines[i])])

\* the batches of requests handed to TRITONBACKEND_ModelInstanceExecute, each
\* request with the number of its sentences and with what fails for it:
\* nothing; TRITONBACKEND_RequestInputName, RequestInput or InputProperties
\* while the inputs are gathered; reading an input buffer (InputBuffer fails or
\* the buffer is in GPU memory); one of the calls that make the output
\* (InputProperties, RequestOutputName, ResponseOutput, OutputBuffer, or the
\* buffer is in GPU memory)
Batches ==
  {requests \in UNION {[1 .. n -> [count : 1 .. MaxSentences,
                                    fault : {"none", "input", "buffer", "output"}]] :
                         n \in 1 .. MaxRequests} :
     Cardinality({r \in 1 .. Len(requests) : requests[r].fault # "none"}) <= MaxFaults}

\* serveRequestsSync or serveRequestsAsync has created a response for every
\* request (the loop of TRITONBACKEND_ResponseNew) and, in the async call,
\* resized partially_completed_requests
InitServe ==
  /\ StoreIdle
  /\ ShardingIdle
  /\ BackendIdle
  /\ PureIdle
  /\ svAsync \in BOOLEAN
  /\ svRequests \in Batches
  /\ \E e \in SUBSET UNION {{Sentence(r - 1, k - 1) : k \in 1 .. svRequests[r].count} :
                            r \in 1 .. Len(svRequests)} :
       Cardinality(e) <= 1 /\ svEmptied = e
  /\ svpc = "gather" /\ svR = 0
  /\ responses = [r \in 1 .. Len(svRequests) |-> TRUE]
  /\ request_input = << >> /\ request_batch_size = << >>
  /\ input_strings = << >> /\ result = << >> /\ svPos = 0
  /\ partially_completed_requests =
       IF svAsync THEN [r \in 1 .. Len(svRequests) |-> << >>] ELSE << >>
  /\ marianBatch_to_tritonRequest_map = << >>
  /\ marianBatchIdx_to_requestBatchIdx_map = << >>
  /\ pending = {} /\ sent = << >>
  /\ released = [r \in 1 .. Len(svRequests) |-> 0]

\* TRITONBACKEND_ResponseSend(responses[r], TRITONSERVER_RESPONSE_COMPLETE_FINAL,
\* nullptr): the 4 bytes of the length and the bytes of the content
SuccessResponse(r, size, bytes) == [request |-> r, error |-> FALSE, size |-> size, bytes |-> bytes]

\* GUARDED_RESPOND_IF_ERROR(responses, r, X) when X is an error: the error
\* response is sent and responses[r] set to nullptr, if it is not nullptr yet
RespondError(r) ==
  IF responses[r + 1]
    THEN /\ sent' = Append(sent, [request |-> r, error |-> TRUE, size |-> 0, bytes |-> << >>])
         /\ responses' = [responses EXCEPT ![r + 1] = FALSE]
    ELSE UNCHANGED <<sent, responses>>

\* the otherwise idle variables of the other models
ServeFrame ==
  UNCHANGED <<storeVars, threadVars, helperVars, poolVars, shardingVars, runVars,
              backendVars, graphVars, pureVars, svAsync, svRequests, svEmptied>>

\* the end of a gathering round for the content s of request r.
\* serveRequestsSync: request_batch_size.push_back(count + 1), and s is appended
\* to input_strings after a '\n'; serveRequestsAsync: the staging area of r is
\* resized, the maps get count + 1 entries for r, and s is appended
Compose(r, s) ==
  LET size == CountNewLines(s) + 1 IN
  /\ input_strings' = IF input_strings = << >> THEN s ELSE input_strings \o <<NewLine>> \o s
  /\ IF svAsync
       THEN /\ partially_completed_requests' =
                 [partially_completed_requests EXCEPT ![r + 1] = [k \in 1 .. size |-> << >>]]
            /\ marianBatch_to_tritonRequest_map' =
                 marianBatch_to_tritonRequest_map \o [k \in 1 .. size |-> r]
            /\ marianBatchIdx_to_requestBatchIdx_map' =
                 marianBatchIdx_to_requestBatchIdx_map \o [k \in 1 .. size |-> k - 1]
            /\ UNCHANGED request_batch_size
       ELSE /\ request_batch_size' = Append(request_batch_size, size)
            /\ UNCHANGED <<partially_completed_requests, marianBatch_to_tritonRequest_map,
                           marianBatchIdx_to_requestBatchIdx_map>>

\* one round of the loop that gathers the inputs (sync lines 376-470, async
\* lines 868-972).  A request whose input name, input or input properties cannot
\* be read is answered with an error and skipped, after request_input got its
\* entry.  When an input buffer cannot be read the error is answered and the
\* round goes on: content_buffer.insert reads from a pointer that is null or
\* points into GPU memory, which faults or yields bytes that are not the
\* request's.
Gather ==
  LET r == svR
      fault == svRequests[r + 1].fault
  IN
  /\ svpc = "gather"
  /\ r < Len(svRequests)
  /\ request_input' = Append(request_input, r)
  /\ IF fault = "input"
       THEN /\ RespondError(r)
            /\ svR' = r + 1
            /\ UNCHANGED <<svpc, request_batch_size, input_strings,
                           partially_completed_requests, marianBatch_to_tritonRequest_map,
                           marianBatchIdx_to_requestBatchIdx_map>>
       ELSE IF fault = "buffer"
         THEN /\ RespondError(r)
              /\ \/ /\ svpc' = "crashed"
                    /\ UNCHANGED <<svR, request_batch_size, input_strings,
                                   partially_completed_requests,
                                   marianBatch_to_tritonRequest_map,
                                   marianBatchIdx_to_requestBatchIdx_map>>
                 \/ /\ Compose(r, GarbageText(r))
                    /\ svR' = r + 1
                    /\ svpc' = svpc
         ELSE /\ Compose(r, RequestText(r))
              /\ svR' = r + 1
              /\ UNCHANGED <<svpc, sent, responses>>
  /\ UNCHANGED <<result, svPos, pending, released>>
  /\ ServeFrame

\* serveRequestsSync: char* result = translate(marian, input_strings.c_str());
\* char* pos = result
TranslateSync ==
  /\ svpc = "gather" /\ svR = Len(svRequests) /\ ~svAsync
  /\ result' = Translate(input_strings)
  /\ svPos' = 1
  /\ svR' = 0
  /\ svpc' = "assign"
  /\ UNCHANGED <<responses, request_input, request_batch_size, input_strings,
                 partially_completed_requests, marianBatch_to_tritonRequest_map,
                 marianBatchIdx_to_requestBatchIdx_map, pending, sent, released>>
  /\ ServeFrame

\* one round of the loop that assigns the results (lines 480-614): batch_size
\* lines are taken from pos, fewer if the result ends, and pos moves behind
\* them (it stays on the last line of the result); a request whose response is
\* gone is skipped, one whose output cannot be made is answered with an error,
\* any other gets the lines, is answered and released.  With batch_size 0
\* output_content stays nullptr and strlen(output_content) faults.  The read
\* of request_batch_size[r] past the end of the vector yields any int.
AssignSync ==
  LET r == svR
      lines == Split(result)
  IN
  /\ svpc = "assign"
  /\ r < Len(svRequests)
  /\ \E batch_size \in IF r + 1 <= Len(request_batch_size)
                         THEN {request_batch_size[r + 1]}
                         ELSE 0 .. MaxSentences :
       IF batch_size <= 0
         THEN /\ svpc' = "crashed"
              /\ UNCHANGED <<svR, request_batch_size, input_strings, result, svPos,
                             partially_completed_requests,
                             marianBatch_to_tritonRequest_map,
                             marianBatchIdx_to_requestBatchIdx_map, pending, released,
                             sent, responses>>
         ELSE LET left == Len(lines) - svPos + 1
                  taken == IF batch_size < left THEN batch_size ELSE left
                  output_content == Join(SubSeq(lines, svPos, svPos + taken - 1))
              IN
              /\ svPos' = IF svPos + taken - 1 = Len(lines) THEN Len(lines) ELSE svPos + taken
              /\ svR' = r + 1
              /\ svpc' = svpc
              /\ IF ~responses[r + 1]
                   THEN UNCHANGED <<sent, responses, released>>
                   ELSE IF svRequests[r + 1].fault = "output"
                     THEN RespondError(r) /\ released' = released
                     ELSE /\ sent' = Append(sent, SuccessResponse(r, Len(output_content),
                                                                  output_content))
                          /\ released' = [released EXCEPT ![r + 1] = @ + 1]
                          /\ responses' = responses
              /\ UNCHANGED <<request_batch_size, input_strings, result,
                             partially_completed_requests, marianBatch_to_tritonRequest_map,
                             marianBatchIdx_to_requestBatchIdx_map, pending>>
  /\ request_input' = request_input
  /\ ServeFrame

\* free_result(result); return nullptr
ReturnSync ==
  /\ svpc = "assign" /\ svR = Len(svRequests)
  /\ svpc' = "returned"
  /\ UNCHANGED <<svR, responses, request_input, request_batch_size, input_strings, result,
                 svPos, partially_completed_requests, marianBatch_to_tritonRequest_map,
                 marianBatchIdx_to_requestBatchIdx_map, pending, sent, released>>
  /\ ServeFrame

\* translate_async(marian, input_strings.c_str(), sendResponse, &state): Marian
\* will call sendResponse once for every sentence of its batch, in any order
TranslateAsync ==
  /\ svpc = "gather" /\ svR = Len(svRequests) /\ svAsync
  /\ pending' = 0 .. (Len(MarianBatch(input_strings)) - 1)
  /\ svpc' = "callbacks"
  /\ UNCHANGED <<svR, responses, request_input, request_batch_size, input_strings, result,
                 svPos, partially_completed_requests, marianBatch_to_tritonRequest_map,
                 marianBatchIdx_to_requestBatchIdx_map, sent, released>>
  /\ ServeFrame

\* a slot of the staging area counts as filled if(!sentence.empty())
Staged(sentence) == sentence # << >>

\* the response of the async path: c_str_size = concatedSentences.size() + 1
\* bytes are copied from c_str(), the terminating '\0' with them
AsyncResponse(r, concatedSentences) ==
  SuccessResponse(r, Len(concatedSentences) + 1, concatedSentences \o <<Nul>>)

\* sendResponse(bn, result, userData)
SendResponse(bn) ==
  LET translated == Translation(MarianBatch(input_strings)[bn + 1])
      requestNumber == marianBatch_to_tritonRequest_map[bn + 1]
      requestBatchIdx == marianBatchIdx_to_requestBatchIdx_map[bn + 1]
      requestStaging == partially_completed_requests[requestNumber + 1]
      staged == [requestStaging EXCEPT ![requestBatchIdx + 1] = translated]
  IN
  /\ svpc = "callbacks"
  /\ bn \in pending
  /\ pending' = pending \ {bn}
  /\ IF Staged(requestStaging[requestBatchIdx + 1])
       THEN /\ RespondError(requestNumber)
            /\ UNCHANGED <<partially_completed_requests, released>>
       ELSE /\ partially_completed_requests' =
                 [partially_completed_requests EXCEPT ![requestNumber + 1] = staged]
            /\ IF \E k \in 1 .. Len(staged) : ~Staged(staged[k])
                 THEN UNCHANGED <<sent, responses, released>>
                 ELSE IF ~responses[requestNumber + 1]
                   THEN UNCHANGED <<sent, responses, released>>
                   ELSE IF svRequests[requestNumber + 1].fault = "output"
                     THEN RespondError(requestNumber) /\ released' = released
                     ELSE /\ sent' = Append(sent, AsyncResponse(requestNumber, Join(staged)))
                          /\ released' = [released EXCEPT ![requestNumber + 1] = @ + 1]
                          /\ responses' = responses
  /\ UNCHANGED <<svpc, svR, request_input, request_batch_size, input_strings, result, svPos,
                 marianBatch_to_tritonRequest_map, marianBatchIdx_to_requestBatchIdx_map>>
  /\ ServeFrame

\* translate_async has made its calls; statistics; return nullptr
ReturnAsync ==
  /\ svpc = "callbacks" /\ pending = {}
  /\ svpc' = "returned"
  /\ UNCHANGED <<svR, responses, request_input, request_batch_size, input_strings, result,
                 svPos, partially_completed_requests, marianBatch_to_tritonRequest_map,
                 marianBatchIdx_to_requestBatchIdx_map, pending, sent, released>>
  /\ ServeFrame

NextServe ==
  \/ Gather
  \/ TranslateSync
  \/ AssignSync
  \/ ReturnSync
  \/ TranslateAsync
  \/ \E bn \in pending : SendResponse(bn)
  \/ ReturnAsync

SpecServe == InitServe /\ [][NextServe]_vars

\* ------------------------------------------------------------ properties
\* pushes go through the per-shard path of sparsePush
SparseStore == drop_rate_ /\ NumDevices >= 2

\* the helper threads inside the critical section of shard s
InCriticalSection(s) == {th \in Threads : hpc[th][s] \in {"dcs", "sfdelta", "pmid"}}

\* a push to s has taken the mutex and not yet applied its update
MidPush(s) == \E th \in Threads : hpc[th][s] = "pmid"

\* the buffer of shard s in the slot of its current version
CurrentBuffer(s) == params_[globalVersionNumber[s] % history_size_][s]

C3_DenseFetchCopiesCurrent ==
  \A th \in Threads, s \in Shards :
    (hpc[th][s] = "dcs" /\ slotArg[th] # ShadowArg) =>
      FetchSource(th, s) = CurrentBuffer(s)

\* a prefix of a buffer's updates: the buffer of an earlier version
IsVersionOf(b, cur, v) == v <= Len(cur) /\ b = SubSeq(cur, 1, v)

\* C4: in a sparse fetch that is not a no-op the base of the delta holds a
\* version v of the shard with current - H + 1 <= v <= current, the delta is
\* taken to the current version, and with a gap >= H the base is the oldest
\* buffer still valid, version current - H + 1.
C4_SparseBaseWithinHistory ==
  \A th \in Threads, s \in Shards :
    hpc[th][s] = "sfdelta" =>
      LET current == globalVersionNumber[s]
          local == localVersionNumbers[my_id[th]][s]
          base == params_[currVersion[th][s]][s]
          v == Len(base)
      IN
      /\ IsVersionOf(base, CurrentBuffer(s), v)
      /\ Len(CurrentBuffer(s)) = current
      /\ latestVersion[th][s] = current % history_size_
      /\ currVersion[th][s] \in Slots
      /\ current - history_size_ + 1 <= v /\ v <= current
      /\ current - local >= history_size_ => v = current - history_size_ + 1
      /\ current - local < history_size_ => v = local

C4_Witness ==
  \E th \in Threads, s \in Shards :
    /\ hpc[th][s] = "sfdelta"
    /\ globalVersionNumber[s] - localVersionNumbers[my_id[th]][s] >= history_size_
    /\ ~crashed

\* the history slots of shard s other than slot h are left as they are
OtherSlotsKept(s, h) == \A k \in Slots \ {h} : params_'[k][s] = params_[k][s]

\* helper th of a push takes the mutex of s: gradient staged, buffer copied,
\* version bumped
PushEnters(th, s) == hpc[th][s] = "pwait" /\ hpc'[th][s] = "pmid"

\* helper th of a push applies the update and releases the mutex of s
PushLeaves(th, s) == hpc[th][s] = "pmid" /\ hpc'[th][s] = "done"

\* C5: a push to shard s at version v with H > 1 holds the mutex of s from its
\* first step to its last, copies slot v mod H into slot (v+1) mod H, sets the
\* version to v+1 and applies the optimizer update to slot (v+1) mod H only:
\* slot v mod H and every other slot of s are unchanged by the push.
C5_PushCopyOnWrite ==
  [][\A th \in Threads, s \in Shards :
       LET v == globalVersionNumber[s]
           H == history_size_
       IN
       /\ (H > 1 /\ PushEnters(th, s)) =>
            /\ shardSync_[s] = {} /\ shardSync_'[s] = {th}
            /\ globalVersionNumber'[s] = v + 1
            /\ params_'[(v + 1) % H][s] = params_[v % H][s]
            /\ OtherSlotsKept(s, (v + 1) % H)
            /\ pastVersion'[th][s] = v % H
       /\ (H > 1 /\ PushLeaves(th, s)) =>
            /\ shardSync_[s] = {th} /\ shardSync_'[s] = {}
            /\ globalVersionNumber'[s] = v
            /\ params_'[v % H][s] =
                 Append(params_[(v - 1) % H][s], Update(grads_[s], pushArg[th].words))
            /\ params_'[(v - 1) % H][s] = params_[(v - 1) % H][s]
            /\ OtherSlotsKept(s, v % H)
            /\ pastVersion[th][s] = (v - 1) % H
  ]_vars

C5_Witness ==
  \E th \in Threads, s \in Shards :
    /\ history_size_ > 1
    /\ hpc[th][s] = "done"
    /\ pc[th] = "joinPush"
    /\ globalVersionNumber[s] >= 2
    /\ Len(CurrentBuffer(s)) = globalVersionNumber[s]

\* what the store keeps for shard s
ShardState(s) ==
  <<globalVersionNumber[s], [h \in Slots |-> params_[h][s]], grads_[s],
    IF movingAvg_ THEN paramsAvg_[s] ELSE << >>>>

RECURSIVE WindowGradient(_)
WindowGradient(w) == IF w = << >> THEN NoGradient ELSE Head(w)[1] \o WindowGradient(Tail(w))

RECURSIVE WindowWords(_)
WindowWords(w) == IF w = << >> THEN 0 ELSE Head(w)[2] + WindowWords(Tail(w))

\* the update a single push of the window's summed gradient and words applies
WindowUpdate(w, sparse) == Update([g |-> WindowGradient(w), sparse |-> sparse], WindowWords(w))

\* the steps of worker thread th that end a window
Flushes(th) == pc[th] = "flush" /\ t[th] % tau_ = 0 /\ pc'[th] # "flush"

\* C7: with tau > 1 the push at the end of every window of tau steps applies
\* the optimizer update of the sum of the window's tau gradients with the sum
\* of its word counts, in every window of a worker.
C7_WindowPushesSum ==
  [][\A th \in Threads :
       (tau_ > 1 /\ Flushes(th)) =>
         /\ Len(window[th]) = tau_
         /\ pc'[th] = "joinPush" =>
              Update(StagedGradient(th)', pushArg'[th].words)
                = WindowUpdate(window[th], drop_rate_)
         /\ pc'[th] = "idle" =>
              replica'[th][0].patches[Len(replica'[th][0].patches)].b = WindowUpdate(window[th], FALSE)
  ]_vars

\* C7 with two devices or more, or drop rate zero
C7_WindowPushesSumInStore ==
  [][\A th \in Threads :
       (tau_ > 1 /\ Flushes(th) /\ pc'[th] = "joinPush") =>
         /\ Len(window[th]) = tau_
         /\ Update(StagedGradient(th)', pushArg'[th].words)
              = WindowUpdate(window[th], drop_rate_)
  ]_vars

\* helper th of a sparse fetch leaves the wait for the mutex of s
SparseFetchRuns(th, s) == hpc[th][s] = "sfwait" /\ hpc'[th][s] # "sfwait"

\* C8: a sparse fetch of shard s by a worker whose last-seen version of s is
\* the current version of s changes neither the worker's replica slice of s,
\* nor its last-seen version, nor any buffer or version of the store.
C8_SparseFetchOfLatestIsNoOp ==
  [][\A th \in Threads, s \in Shards :
       (SparseFetchRuns(th, s)
          /\ localVersionNumbers[my_id[th]][s] = globalVersionNumber[s]) =>
         /\ hpc'[th][s] = "done"
         /\ replica'[th][s] = replica[th][s]
         /\ localVersionNumbers' = localVersionNumbers
         /\ UNCHANGED <<globalVersionNumber, params_, grads_, paramsAvg_, shardSync_>>
  ]_vars

C8_Witness ==
  \E th \in Threads, s \in Shards :
    /\ pc[th] = "joinFetch"
    /\ hpc[th][s] = "done"
    /\ replica[th][s] = FreshReplica
    /\ localVersionNumbers[my_id[th]][s] = globalVersionNumber[s]
    /\ globalVersionNumber[s] >= 1

\* helper th of a sparse fetch leaves the critical section of s
SparseFetchLeaves(th, s) == hpc[th][s] = "sfdelta" /\ hpc'[th][s] = "done"

\* C9: when a sparse fetch leaves the critical section of shard s the worker's
\* last-seen version of s is the version s had in that critical section; a
\* last-seen version never exceeds the shard's version and never decreases.
C9_LastSeenVersion ==
  /\ [](~first_ =>
          \A w \in Threads, s \in Shards :
            localVersionNumbers[w][s] <= globalVersionNumber[s])
  /\ [][~first_ =>
          \A th \in Threads, s \in Shards :
            /\ localVersionNumbers'[th][s] >= localVersionNumbers[th][s]
            /\ SparseFetchLeaves(th, s) =>
                 /\ localVersionNumbers'[my_id[th]][s] = globalVersionNumber[s]
                 /\ globalVersionNumber'[s] = globalVersionNumber[s]
    ]_vars

C9_Witness ==
  \E th \in Threads, s \in Shards :
    /\ hpc[th][s] = "done"
    /\ pc[th] = "joinFetch"
    /\ NumDevices >= 2
    /\ localVersionNumbers[my_id[th]][s] >= 2
    /\ localVersionNumbers[my_id[th]][s] < globalVersionNumber[s]

\* C10: in every step the version of a shard stays or grows by exactly 1, and
\* it grows only in the step of a push to that shard that holds its mutex.
C10_VersionGrowsByOneInPush ==
  [][~first_ =>
       \A s \in Shards :
         \/ globalVersionNumber'[s] = globalVersionNumber[s]
         \/ /\ globalVersionNumber'[s] = globalVersionNumber[s] + 1
            /\ \E th \in Threads :
                 /\ PushEnters(th, s)
                 /\ shardSync_'[s] = {th}
                 /\ pc[th] = "joinPush"
  ]_vars

C10_Witness ==
  ~first_ /\ \E s \in Shards : globalVersionNumber[s] >= 3 /\ shardSync_[s] # {}

\* the value of a replica slice: its dense base with its patches applied in
\* order.  A delta brings the value it was taken from to its target (what the
\* sparsification dropped is left aside); added to any other value it gives the
\* buffer of no version.  A local update is one more update of the value.
RECURSIVE ApplyPatches(_, _)
ApplyPatches(value, patches) ==
  IF patches = << >> THEN value
  ELSE LET p == Head(patches)
           next == IF ~value.whole THEN value
                   ELSE IF p.kind = "delta"
                     THEN IF value.v = p.a THEN [whole |-> TRUE, v |-> p.b]
                                           ELSE [whole |-> FALSE, v |-> value.v]
                     ELSE [whole |-> TRUE, v |-> Append(value.v, p.b)]
       IN ApplyPatches(next, Tail(patches))

SliceValue(slice) == ApplyPatches([whole |-> TRUE, v |-> slice.base], slice.patches)

\* b is the parameter buffer of shard s at one of its versions
IsParamsVersion(b, s) == \E v \in 0 .. Len(CurrentBuffer(s)) : IsVersionOf(b, CurrentBuffer(s), v)

\* b is the shadow buffer of shard s after one of its updates
IsShadowVersion(b, s) ==
  /\ movingAvg_
  /\ \E k \in 1 .. Len(paramsAvg_[s]) : b = SubSeq(paramsAvg_[s], 1, k)

\* C11: when a worker calls save in the scheduler section, every shard slice
\* of the parameters handed to the serializer equals one complete version of
\* the shard's store buffer, parameter or shadow, as copied inside the shard's
\* critical section.  (Stated for two devices or more: with one device and
\* a drop rate sparsePush updates the replica in place and the store is left
\* behind.)
C11_SavedSlicesAreVersions ==
  \A th \in Threads :
    (pc[th] = "save" /\ NumDevices >= 2) =>
      \A s \in Shards :
        LET value == SliceValue(SerializedParams(th)[s]) IN
        /\ value.whole
        /\ IsParamsVersion(value.v, s) \/ IsShadowVersion(value.v, s)

\* C11 where it holds: drop rate zero, or the moving average kept
C11_SavedSlicesAreVersionsDense ==
  \A th \in Threads :
    (pc[th] = "save" /\ (~drop_rate_ \/ movingAvg_)) =>
      \A s \in Shards :
        LET value == SliceValue(SerializedParams(th)[s]) IN
        /\ value.whole
        /\ IsParamsVersion(value.v, s) \/ IsShadowVersion(value.v, s)

\* ------------------------------------------------------------ C12
\* a task is queued or a pool thread is inside one
TaskInFlight == queue # << >> \/ \E th \in Threads : pc[th] # "idle"

\* C12: while any task may be in flight, every buffer a push or a fetch may
\* touch (the parameter history, the gradient buffers, the shadow buffers and
\* the scratch tensors of sparse fetch) is still allocated: the queue is
\* drained and the threads are joined before any of them is freed.
C12_BuffersOutliveTasks ==
  TaskInFlight => \A buffer \in StoreBuffers : Allocated(buffer)

\* C12 for the buffers that lie in paramsAlloc_, gradsAlloc_ and paramsAllocAvg_,
\* the members declared before pool_
C12_AllocatorBuffersOutliveTasks ==
  TaskInFlight => \A buffer \in StoreBuffers \ {"tmpTensor"} : Allocated(buffer)

\* ------------------------------------------------------------ C13
\* a step of some task: of its pool thread or of one of its helper threads
TaskStep ==
  \/ \E th \in Threads :
        \/ TakeTask(th) \/ Bind(th) \/ CreateDropper(th)
        \/ SkipFetch(th) \/ StartDenseFetch(th) \/ StartSparseFetch(th) \/ JoinFetch(th)
        \/ Compute(th)
        \/ SkipPush(th) \/ StartDensePush(th) \/ StartSparsePush(th)
        \/ SingleGraphPush(th) \/ JoinPush(th)
        \/ SchedulerLock(th) \/ SchedulerUpdate(th) \/ JoinShadowFetch(th)
        \/ Save(th) \/ Validate(th)
  \/ \E th \in Threads, s \in Shards :
        \/ DenseAcquire(th, s) \/ DenseCopy(th, s)
        \/ SparseAcquire(th, s) \/ SparseApply(th, s)
        \/ PushAcquire(th, s) \/ PushUpdate(th, s)

\* C13: every submitted batch is processed to completion and no interleaving
\* deadlocks: as long as a task is queued or running, some step of a task can
\* be taken (a run in which no task can move while one is in flight never
\* completes it).
C13_TasksCanProceed == TaskInFlight => ENABLED TaskStep

\* C13 as long as no helper has faulted: the locks alone never block all tasks
C13_LocksNeverDeadlock == (TaskInFlight /\ ~crashed) => ENABLED TaskStep

\* ------------------------------------------------------------ C14
BoundThreads == {th \in Threads : bound[th]}

\* the bound threads hold the replica indexes 0 .. i-1, one each
BindingUnique ==
  /\ \A th \in BoundThreads : my_id[th] \in 0 .. NumDevices - 1
  /\ \A th1, th2 \in BoundThreads : my_id[th1] = my_id[th2] => th1 = th2
  /\ {my_id[th] : th \in BoundThreads} = 0 .. staticI - 1

\* a thread is bound to the next unassigned index, and a bound thread keeps it
BindingStep ==
  \A th \in Threads :
    /\ (~bound[th] /\ bound'[th]) =>
         /\ pc[th] = "bind"
         /\ my_id'[th] = staticI
         /\ my_id'[th] \notin {my_id[other] : other \in BoundThreads}
    /\ bound[th] => (bound'[th] /\ my_id'[th] = my_id[th])

\* C14: a thread takes, on its first task, the next unassigned replica index;
\* no two threads are bound to the same index, every bound index is below the
\* number of devices, and a thread's index never changes afterwards.
C14_ReplicaBinding == []BindingUnique /\ [][BindingStep]_vars

\* both threads are bound, thread 0 to replica 1, and thread 0 is in a later task
C14_Witness ==
  /\ NumDevices = 2
  /\ BoundThreads = Threads
  /\ my_id[0] = 1
  /\ t[0] >= 2

\* ------------------------------------------------------------ C15
\* the shadow buffer holds exactly the values of the buffer params: every value
\* blended into it, each with a weight above zero, is params
IsExactCopy(paramsAvg, params) ==
  \A k \in 1 .. Len(paramsAvg) : paramsAvg[k].params = params

\* moving-average updates of shard s so far
AverageUpdates(s) == Len(paramsAvg_[s]) - 1

ProperDecay(decay) == 0 < decay[1] /\ decay[1] < decay[2]

\* the moving-average update of push helper th on shard s blends the updated
\* parameters into the shadow buffer, with the decay of a batch count the
\* scheduler held during the update
BlendStep(th, s) ==
  (PushLeaves(th, s) /\ movingAvg_) =>
    /\ Len(paramsAvg_'[s]) = Len(paramsAvg_[s]) + 1
    /\ SubSeq(paramsAvg_'[s], 1, Len(paramsAvg_[s])) = paramsAvg_[s]
    /\ LET blend == paramsAvg_'[s][Len(paramsAvg_'[s])] IN
         /\ blend.params = CurrentBuffer(s)'
         /\ blend.decay \in {Decay(numberOfBatches), Decay(numberOfBatches + 1)}
         /\ ProperDecay(blend.decay)

\* before its first moving-average update the shadow buffer of a shard is an
\* exact copy of the shard's initial parameters
ShadowStartsAsCopy ==
  \A s \in Shards :
    (movingAvg_ /\ ~first_ /\ AverageUpdates(s) = 0) =>
      /\ IsExactCopy(paramsAvg_[s], InitialParams)
      /\ ~MidPush(s) => IsExactCopy(paramsAvg_[s], CurrentBuffer(s))

DenseFetchCalled(th) ==
  \E s \in Shards : hpc[th][s] # "dwait" /\ hpc'[th][s] = "dwait"

DenseFetchHelperStep(th, s) ==
  hpc[th][s] \in {"dwait", "dcs"} /\ hpc'[th][s] # hpc[th][s]

DenseFetchJoined(th) ==
  /\ pc[th] \in {"joinFetch", "joinSave", "joinValidate"}
  /\ pc'[th] # pc[th]
  /\ pc[th] = "joinFetch" => ~FetchesSparse(th)

DenseFetchStep(th) ==
  \/ DenseFetchCalled(th)
  \/ \E s \in Shards : DenseFetchHelperStep(th, s)
  \/ DenseFetchJoined(th)

\* C16: no step of a dense fetch changes the store: the history buffers, the
\* gradient buffer, the shadow buffer and the version of every shard and the
\* last-seen versions of every worker are after the step what they were before
\* it; the copy puts the source buffer into dest and leaves the source as it
\* was, so the same fetch again yields the same dest.
C16_DenseFetchKeepsStore ==
  [][\A th \in Threads :
       DenseFetchStep(th) =>
         /\ \A s \in Shards : ShardState(s)' = ShardState(s)
         /\ localVersionNumbers' = localVersionNumbers
         /\ \A s \in Shards :
              (hpc[th][s] = "dcs" /\ hpc'[th][s] = "done") =>
                /\ replica'[th][s] = [base |-> FetchSource(th, s), patches |-> << >>]
                /\ FetchSource(th, s)' = FetchSource(th, s)]_vars

\* a dense fetch of parameters that have been pushed to is complete
C16_Witness ==
  \E th \in Threads :
    /\ pc[th] = "joinFetch"
    /\ ~FetchesSparse(th)
    /\ \A s \in Shards :
         /\ hpc[th][s] = "done"
         /\ replica[th][s].base = CurrentBuffer(s)
         /\ Len(CurrentBuffer(s)) >= 1

\* ------------------------------------------------------------ C17
\* th calls update, saving, validating, save or validate in this step
SectionCall(th) ==
  pc[th] \in {"schedUpdate", "save", "validate"} /\ pc'[th] # pc[th]

\* the push helper of th for shard s calls numberOfBatches in this step
BatchCountRead(th, s) == PushLeaves(th, s) /\ movingAvg_

\* C17: every call on the scheduler on behalf of a worker is made while that
\* worker holds schedulerMutex_, and the batch count is never read while
\* another worker is inside the scheduler's update.
C17_SchedulerCallsLocked ==
  [][\A th \in Threads :
       /\ SectionCall(th) => th \in schedulerMutex_
       /\ \A s \in Shards :
            BatchCountRead(th, s) =>
              /\ th \in schedulerMutex_
              /\ \A other \in Threads \ {th} : pc[other] # "schedUpdate"]_vars

\* C17 for the calls of the scheduler section alone
C17_SectionCallsLocked ==
  [][\A th \in Threads : SectionCall(th) => th \in schedulerMutex_]_vars

\* C17, its second half alone: no push helper is about to read the batch count
\* while another worker is about to run the scheduler's update
C17_NoReadDuringUpdate ==
  \A th \in Threads, s \in Shards :
    (movingAvg_ /\ hpc[th][s] = "pmid") =>
      \A other \in Threads \ {th} : pc[other] # "schedUpdate"

\* ------------------------------------------------------------ C18
\* c and d are the same letter, in the same or in different case
SameLetter(c, d) ==
  c = d \/ \E i \in 1 .. Len(UpperCase) : {c, d} = {UpperCase[i], LowerCase[i]}

\* str is word, compared case-insensitively
IsWord(str, word) ==
  Len(str) = Len(word) /\ \A i \in 1 .. Len(str) : SameLetter(str[i], word[i])

\* the configuration has no parameter "async", or an empty one
AsyncAbsentOrEmpty ==
  ~model_config_.parameters \/ ~model_config_.async \/ model_config_.string_value = << >>

AsyncIs(word) ==
  model_config_.parameters /\ model_config_.async /\ IsWord(model_config_.string_value, word)

\* C18: once SetAsyncMode has run, the model serves asynchronously if and only
\* if the parameter "async" is "true" in any case, absent or empty, and
\* synchronously if and only if it is "false" in any case; for every other
\* value initialisation fails with UNSUPPORTED and no instance exists; every
\* TRITONBACKEND_ModelInstanceExecute goes to the path chosen at initialisation.
C18_AsyncModeFromParameter ==
  modelState \in {"initialized", "failed"} =>
    /\ (modelState = "initialized" /\ async_mode_ = "async")
          <=> (AsyncAbsentOrEmpty \/ AsyncIs(True))
    /\ (modelState = "initialized" /\ async_mode_ = "sync") <=> AsyncIs(False)
    /\ (modelState = "failed" /\ modelError = "UNSUPPORTED")
          <=> ~(AsyncAbsentOrEmpty \/ AsyncIs(True) \/ AsyncIs(False))
    /\ modelState = "failed" => (instances = << >> /\ served = << >>)
    /\ \A k \in 1 .. Len(served) :
         served[k][2] = IF AsyncAbsentOrEmpty \/ AsyncIs(True)
                          THEN "serveRequestsAsync" ELSE "serveRequestsSync"

\* a model configured with "false" in mixed case has served on two instances
C18_Witness ==
  /\ AsyncIs(False)
  /\ model_config_.string_value \notin {False, Transform(False)}
  /\ \E k \in 1 .. Len(served) : served[k] = <<1, "serveRequestsSync">>
  /\ \E k \in 1 .. Len(served) : served[k] = <<2, "serveRequestsSync">>

\* a model configured with another value has failed to initialise
C18_WitnessUnsupported ==
  /\ modelState = "failed"
  /\ model_config_.string_value = <<"t", "r", "u", "e", " ">>

\* ------------------------------------------------------------ C19
\* th calls fetchParams on the parameter history in this step (the copy of the
\* shadow buffers that the scheduler section makes before save and validate
\* is not a fetch of parameters)
ParamsFetchCalled(th) == DenseFetchCalled(th) /\ slotArg'[th] # ShadowArg

\* th calls sparseFetchParams in this step; with one device the call returns
\* at once and the task goes on to compute
SparseFetchCalled(th) ==
  \/ \E s \in Shards : hpc[th][s] # "sfwait" /\ hpc'[th][s] = "sfwait"
  \/ NumDevices < 2 /\ drop_rate_ /\ pc[th] = "fetch" /\ pc'[th] = "compute"
       /\ t[th] > 0 /\ t[th] % tau_ = 0

\* th leaves the head of its micro-step
FetchDecided(th) == pc[th] = "fetch" /\ pc'[th] # "fetch"

FetchPolicyStep(th) ==
  /\ (ParamsFetchCalled(th) \/ SparseFetchCalled(th)) =>
       (pc[th] = "fetch" /\ t[th] % tau_ = 0)
  /\ FetchDecided(th) =>
       /\ t[th] % tau_ = 0 => (ParamsFetchCalled(th) \/ SparseFetchCalled(th))
       /\ t[th] = 0 => ParamsFetchCalled(th)
       /\ t[th] > 0 => (SparseFetchCalled(th) <=> (drop_rate_ /\ t[th] % tau_ = 0))
       /\ t[th] > 0 => (ParamsFetchCalled(th) <=> (~drop_rate_ /\ t[th] % tau_ = 0))
  /\ (pc[th] # "compute" /\ pc'[th] = "compute") =>
       \/ pc[th] = "joinFetch"
       \/ pc[th] = "fetch" /\ (t[th] % tau_ # 0 \/ SparseFetchCalled(th))
  /\ (pc[th] # "joinFetch" /\ pc'[th] = "joinFetch") =>
       (ParamsFetchCalled(th) \/ SparseFetchCalled(th))
  /\ pc[th] \in {"fetch", "joinFetch"} => t'[th] = t[th]

\* C19: a worker fetches parameters only at micro-steps whose step counter t
\* is a multiple of tau, at every such step, and before it computes; the
\* fetch at t = 0 is dense, and a later fetch is sparse if and only if the
\* drop rate is non-zero.
C19_FetchPolicy == [][\A th \in Threads : FetchPolicyStep(th)]_vars

\* with tau 2 and a drop rate, a worker is in the sparse fetch of its step t = 2
C19_Witness ==
  \E th \in Threads :
    /\ tau_ = 2 /\ drop_rate_
    /\ pc[th] = "joinFetch"
    /\ t[th] = 2
    /\ \E s \in Shards : hpc[th][s] = "sfdelta"

\* ------------------------------------------------------------ C20
\* th calls pushGradients or sparsePush in this step; with one device and a
\* drop rate sparsePush updates the graph and returns in the same step
PushCalled(th) ==
  \/ pushArg[th] = NoPush /\ pushArg'[th] # NoPush
  \/ \E s \in Shards : hpc[th][s] # "pwait" /\ hpc'[th][s] = "pwait"
  \/ pc[th] = "flush" /\ replica'[th] # replica[th]

\* the push of th has returned in this step
PushReturned(th) ==
  \/ pc[th] = "joinPush" /\ pc'[th] # "joinPush"
  \/ pc[th] = "flush" /\ replica'[th] # replica[th]

\* the micro-steps of th since its last push: t mod tau, and tau from the
\* tau-th compute until the push has returned
StepsSincePush ==
  \A th \in Threads :
    Len(window[th]) =
      IF pc[th] \in {"flush", "joinPush"} /\ t[th] % tau_ = 0 THEN tau_ ELSE t[th] % tau_

FlushStep(th) ==
  /\ PushCalled(th) =>
       /\ pc[th] = "flush"
       /\ t[th] > 0 /\ t[th] % tau_ = 0
       /\ Len(window[th]) = tau_
  /\ (pc[th] = "flush" /\ pc'[th] # "flush") =>
       (PushCalled(th) <=> t[th] % tau_ = 0)
  /\ PushReturned(th) =>
       /\ num_seen_words'[th] = 0
       /\ tau_ > 1 => accGradients'[th] = NoGradient
       /\ window'[th] = << >>
  /\ (ParamsFetchCalled(th) \/ SparseFetchCalled(th)) => window[th] = << >>
  /\ pc[th] = "compute" => (pc'[th] \in {"compute", "flush"} /\ pushArg'[th] = NoPush)

\* C20: a worker pushes once after each tau-th micro-step and never in
\* between: a push is called exactly when the step counter has reached a
\* multiple of tau, tau computes after the last push returned; when the push
\* returns the word count is 0 and, with tau > 1, the accumulator is all
\* zeros; a fetch is only called at the start of a window, so every window is
\* one fetch, tau computes, one push.
C20_PushEveryTauSteps == []StepsSincePush /\ [][\A th \in Threads : FlushStep(th)]_vars

\* with tau 2 a worker's second push has returned and it is in a later step
C20_Witness ==
  \E th \in Threads :
    /\ tau_ = 2
    /\ t[th] = 4
    /\ pc[th] \in {"sched", "idle"}
    /\ num_seen_words[th] = 0 /\ window[th] = << >>

\* ------------------------------------------------------------ C21
\* the version of the store buffer a replica slice incorporated last: of the
\* target of its last sparse delta, or of its dense base if it has none (in
\* the sparse store the buffer of version v holds v updates)
IncorporatedVersion(slice) ==
  IF slice.patches = << >>
    THEN Len(slice.base)
    ELSE Len(slice.patches[Len(slice.patches)].b)

\* no fetch helper of th is at work on shard s
NotFetching(th, s) == hpc[th][s] \notin {"dwait", "dcs", "sfwait", "sfdelta"}

\* C21: after a worker's first fetch, dense or sparse, its recorded last-seen
\* version of every shard is the version of the shard buffer its replica
\* incorporated last, so the next sparse delta starts from what the replica
\* holds.  (Stated for the sparse store without moving average, where the
\* replica holds parameter buffers only.)
C21_LastSeenIsIncorporated ==
  \A th \in Threads, s \in Shards :
    (SparseStore /\ ~movingAvg_ /\ ~first_ /\ bound[th] /\ t[th] >= 1
       /\ NotFetching(th, s)) =>
      localVersionNumbers[my_id[th]][s] = IncorporatedVersion(replica[th][s])

\* C21 for the sparse fetch alone: the version it records is the version of
\* the buffer its delta leads to
C21_SparseFetchRecordsTarget ==
  [][\A th \in Threads, s \in Shards :
       SparseFetchLeaves(th, s) =>
         localVersionNumbers'[my_id[th]][s] = IncorporatedVersion(replica'[th][s])]_vars

\* ------------------------------------------------------------ C22
\* helper th is in a sparse fetch of shard s with a gap between 1 and H-1
SmallGapFetch(th, s) ==
  /\ hpc[th][s] = "sfdelta"
  /\ globalVersionNumber[s] - localVersionNumbers[my_id[th]][s] \in 1 .. history_size_ - 1

\* C22: in a sparse fetch of shard s with a gap current - lastSeen between 1
\* and H-1 the base is history slot lastSeen mod H and holds exactly version
\* lastSeen, which no push overwrites during the fetch; the delta that is
\* scatter-added goes from that buffer to the buffer of the current version.
C22_SmallGapBaseIsLastSeen ==
  /\ [](\A th \in Threads, s \in Shards :
          SmallGapFetch(th, s) =>
            LET lastSeen == localVersionNumbers[my_id[th]][s]
                base == params_[currVersion[th][s]][s]
            IN
            /\ currVersion[th][s] = lastSeen % history_size_
            /\ Len(CurrentBuffer(s)) = globalVersionNumber[s]
            /\ Len(base) = lastSeen
            /\ IsVersionOf(base, CurrentBuffer(s), lastSeen))
  /\ [][\A th \in Threads, s \in Shards :
          SmallGapFetch(th, s) =>
            /\ params_'[currVersion[th][s]][s] = params_[currVersion[th][s]][s]
            /\ SparseFetchLeaves(th, s) =>
                 replica'[th][s].patches =
                   Append(replica[th][s].patches,
                          Patch("delta", params_[localVersionNumbers[my_id[th]][s]
                                                   % history_size_][s],
                                CurrentBuffer(s)))]_vars

\* a sparse fetch from a last-seen version 1 or later, two versions behind
C22_Witness ==
  \E th \in Threads, s \in Shards :
    /\ SmallGapFetch(th, s)
    /\ localVersionNumbers[my_id[th]][s] >= 1
    /\ globalVersionNumber[s] - localVersionNumbers[my_id[th]][s] = 2

\* ------------------------------------------------------------ C23
\* the workers inside their scheduler section
InSchedulerSection ==
  {th \in Threads :
     pc[th] \in {"schedUpdate", "joinSave", "save", "joinValidate", "validate"}}

AwaitsShard(th, s) == hpc[th][s] \in {"dwait", "sfwait", "pwait"}

\* C24: no thread holds the scheduler lock while it waits, itself or through
\* helper threads it joins, for a shard mutex, in every configuration.
C24_NoShardWaitUnderSchedulerLock ==
  \A th \in Threads, s \in Shards : th \in schedulerMutex_ => ~AwaitsShard(th, s)

\* C24 without the moving average
C24_NoShardWaitWithoutAverage ==
  \A th \in Threads, s \in Shards :
    (~movingAvg_ /\ th \in schedulerMutex_) => ~AwaitsShard(th, s)

\* the worker holds the scheduler lock and its helper waits for a mutex that
\* a push of the other worker holds
C24_Blocked ==
  \E th \in Threads, s \in Shards :
    /\ th \in schedulerMutex_
    /\ AwaitsShard(th, s)
    /\ \E other \in Threads \ {th} : hpc[other][s] = "pmid"

\* ------------------------------------------------------------ C25
\* a helper of th reads or writes the version or a buffer of shard s in this
\* step: the copy of a dense fetch, the delta of a sparse fetch, the two steps
\* of a push
HelperAccess(th, s) ==
  \/ hpc[th][s] = "dcs" /\ hpc'[th][s] = "done"
  \/ hpc[th][s] = "sfdelta" /\ hpc'[th][s] = "done"
  \/ hpc[th][s] = "pmid" /\ hpc'[th][s] = "done"

\* the task of th reads globalVersionNumber[my_id] in this step, to pick the
\* history slot it hands to fetchParams
TaskReadsVersion(th) == ParamsFetchCalled(th)

\* C25: after initialisation every read or write of a shard's version,
\* history buffers, gradient buffer and shadow buffer by a worker thread is
\* made while the shard's mutex is held for it; no version or buffer is read
\* outside the critical section of its shard.
C25_StoreAccessUnderShardMutex ==
  [][\A th \in Threads :
       /\ \A s \in Shards : HelperAccess(th, s) => th \in shardSync_[s]
       /\ TaskReadsVersion(th) => th \in shardSync_[my_id[th]]]_vars

\* C25 for the helper threads alone
C25_HelperAccessUnderShardMutex ==
  [][\A th \in Threads, s \in Shards : HelperAccess(th, s) => th \in shardSync_[s]]_vars

\* the task is about to read the version of a shard while a push of the other
\* worker is inside that shard's critical section, the version already bumped
C25_RacingRead ==
  \E th \in Threads :
    /\ pc[th] = "fetch" /\ FetchDue(th) /\ ~FetchesSparse(th)
    /\ bound[th]
    /\ \E other \in Threads \ {th} : hpc[other][my_id[th]] = "pmid"

\* ------------------------------------------------------------ C26
RECURSIVE SumOver(_, _)
SumOver(f, set) ==
  IF set = {} THEN 0
  ELSE LET x == CHOOSE x \in set : TRUE IN f[x] + SumOver(f, set \ {x})

\* the workers that have computed their micro-step and not yet reported it
UpdatePending == {th \in Threads : pc[th] \in {"flush", "joinPush", "sched", "schedUpdate"}}

\* the calls of scheduler_->update so far are one for each micro-step computed,
\* but for the micro-steps whose task has not reached the call yet
OneUpdatePerStep ==
  (cfg.scheduler.set /\ ~first_) =>
    numberOfBatches = SumOver(t, Threads) - Cardinality(UpdatePending)

\* scheduler_->update is called in this step
UpdateCalled == numberOfBatches' # numberOfBatches

UpdateStep ==
  UpdateCalled =>
    /\ numberOfBatches' = numberOfBatches + 1
    /\ \E th \in Threads :
         /\ pc[th] = "schedUpdate" /\ pc'[th] # "schedUpdate"
         /\ schedulerMutex_ = {th}
         /\ \A other \in Threads \ {th} : pc[other] # "schedUpdate"

\* C26: with a scheduler set every micro-step of every worker is followed by
\* one call of scheduler update, for every tau and whether or not the step
\* flushed; the caller is the only owner of the scheduler lock during the
\* call, and no two calls overlap.
C26_OneUpdatePerMicroStep == []OneUpdatePerStep /\ [][UpdateStep]_vars

\* with tau 2 a worker has reported its third micro-step, which did not flush
C26_Witness ==
  \E th \in Threads :
    tau_ = 2 /\ t[th] = 3 /\ pc[th] = "idle" /\ numberOfBatches = 3

\* ------------------------------------------------------------ C27
\* th is at save or validate with the moving average on
AtSaveOrValidate(th) == movingAvg_ /\ pc[th] \in {"save", "validate"}

\* a step of the copy of the shadow buffers into the replica of th
ShadowFetchStep(th) == slotArg[th] = ShadowArg /\ DenseFetchStep(th)

\* C27: with the moving average on, when save or validate runs the worker's
\* replica holds, for every shard, a copy of the shard's shadow buffer, made
\* while the worker owned the scheduler lock exclusively; the copy leaves every
\* shadow buffer, parameter buffer and version as it was.
C27_ShadowPulledBeforeSave ==
  /\ [](\A th \in Threads :
          AtSaveOrValidate(th) =>
            /\ schedulerMutex_ = {th}
            /\ \A s \in Shards :
                 /\ replica[th][s].patches = << >>
                 /\ IsShadowVersion(replica[th][s].base, s))
  /\ [][\A th \in Threads :
          ShadowFetchStep(th) =>
            /\ schedulerMutex_ = {th}
            /\ \A s \in Shards : ShardState(s)' = ShardState(s)
            /\ \A s \in Shards :
                 (hpc[th][s] = "dcs" /\ hpc'[th][s] = "done") =>
                   replica'[th][s] = [base |-> paramsAvg_[s], patches |-> << >>]]_vars

\* a worker is at validate with shadow buffers that have been updated
C27_Witness ==
  \E th \in Threads :
    /\ AtSaveOrValidate(th) /\ pc[th] = "validate"
    /\ \A s \in Shards : Len(replica[th][s].base) >= 2

\* ------------------------------------------------------------ C28
\* the micro-steps computed on replica r: those of the thread bound to it
StepsOn(r) ==
  IF \E th \in BoundThreads : my_id[th] = r
    THEN t[CHOOSE th \in BoundThreads : my_id[th] = r]
    ELSE 0

\* C28 as claimed: forward and backward have each been invoked once for every
\* batch computed, on the replica of the worker that computed it, the first
\* batch included.
C28_OneForwardOneBackwardPerBatch ==
  ~first_ =>
    \A r \in Shards : forwardCalls[r] = StepsOn(r) /\ backwardCalls[r] = StepsOn(r)

\* a micro-step of th: one forward and one backward on its replica, none on
\* any other; no other step of a task calls either
ComputeStep(th) ==
  IF pc[th] = "compute" /\ pc'[th] = "flush"
    THEN /\ forwardCalls'[my_id[th]] = forwardCalls[my_id[th]] + 1
         /\ backwardCalls'[my_id[th]] = backwardCalls[my_id[th]] + 1
         /\ \A r \in Shards \ {my_id[th]} :
              forwardCalls'[r] = forwardCalls[r] /\ backwardCalls'[r] = backwardCalls[r]
    ELSE TRUE

\* the first execute() calls forward once on every replica, with the first
\* batch, and backward on none; every other step that is not a compute leaves
\* the counts
OtherStep ==
  (\A th \in Threads : ~(pc[th] = "compute" /\ pc'[th] = "flush")) =>
    /\ backwardCalls' = backwardCalls
    /\ IF first_ /\ ~first_'
         THEN \A r \in Shards : forwardCalls'[r] = forwardCalls[r] + 1
         ELSE forwardCalls' = forwardCalls

\* C28 as the code has it: the task of every batch invokes forward and
\* backward once each, on the replica of its worker, whether or not the step
\* fetches or flushes; besides, the first execute() invokes forward once on
\* every replica with the first batch, so a replica has one forward more than
\* it has micro-steps and backwards.
C28_OneForwardPerTaskAndInit ==
  /\ [](~first_ =>
          \A r \in Shards :
            forwardCalls[r] = StepsOn(r) + 1 /\ backwardCalls[r] = StepsOn(r))
  /\ [][OtherStep /\ \A th \in Threads : ComputeStep(th)]_vars

\* with tau 2 both replicas have computed, one of them a step that neither
\* fetched nor flushed
C28_Witness ==
  /\ NumDevices = 2 /\ tau_ = 2
  /\ \A r \in Shards : backwardCalls[r] >= 1
  /\ \E r \in Shards : backwardCalls[r] = 2 /\ forwardCalls[r] = 3

\* ------------------------------------------------------------ C29
\* the shards whose range of the parameter vector contains index i
ShardsOf(i) ==
  {s \in 0 .. (shDevices - 1) :
     shStarts[s + 1] <= i /\ i < shStarts[s + 1] + shSizes[s + 1]}

\* entry i went to one shard only, the one whose range contains i, at
\* position i minus the offset of that shard
DeliveredOnce(i) ==
  /\ Cardinality({d \in spDelivered : d[3] = i}) = 1
  /\ \A d \in spDelivered :
       d[3] = i => d[1] \in ShardsOf(i) /\ d[2] = i - shStarts[d[1] + 1]

\* C29: after a sparse push every entry of the worker-wide sparse gradient has
\* been delivered to exactly one shard, the shard whose range contains its
\* index, at local position index - offset; none is lost, none is applied to
\* two shards.
C29_EntriesDeliveredOnce ==
  shStage = "pushed" => \A i \in spEntries : DeliveredOnce(i)

\* where it holds: two devices or more and a parameter count that is a
\* multiple of the device count; and in every case no entry reaches two
\* shards or a shard other than the one that holds its index
C29_DeliveredWhereShardsCover ==
  /\ (shStage = "pushed" /\ shDevices >= 2 /\ shTotal % shDevices = 0) =>
       \A i \in spEntries : DeliveredOnce(i)
  /\ \A d \in spDelivered :
       /\ d[3] \in spEntries
       /\ d[1] \in ShardsOf(d[3])
       /\ d[2] = d[3] - shStarts[d[1] + 1]
       /\ \A e \in spDelivered : e[3] = d[3] => e = d

\* an entry of a push that ended on two devices or more reached no shard
C29_EntryLost ==
  /\ shStage = "pushed" /\ shDevices >= 2
  /\ \E i \in spEntries : \A d \in spDelivered : d[3] # i

\* ------------------------------------------------------------ C30
IsPrefix(a, b) == Len(a) <= Len(b) /\ SubSeq(b, 1, Len(a)) = a
Holds(buffer, u) == \E i \in 1 .. Len(buffer) : buffer[i] = u

\* the helper of th copies shard s of the parameter history in this step
StoreCopyStep(th, s) ==
  hpc[th][s] = "dcs" /\ hpc'[th][s] = "done" /\ slotArg[th] # ShadowArg

\* C30, the part that holds in every state: a slice a dense fetch copies is a
\* complete version of its shard.  The copy is made with the shard's mutex held
\* by the fetching helper alone and no push to the shard under way, it takes the
\* whole buffer as the pushes completed so far have left it, and with dense
\* pushes the slice stays one of the versions the shard has gone through.
C30_EachSliceIsAVersion ==
  /\ [][\A th \in Threads, s \in Shards :
          StoreCopyStep(th, s) =>
            /\ shardSync_[s] = {th}
            /\ \A other \in Threads : hpc[other][s] # "pmid"
            /\ replica'[th][s].base = params_[slotArg[th]][s]
            /\ replica'[th][s].patches = << >>]_vars
  /\ []((~drop_rate_ /\ ~movingAvg_) =>
          \A th \in BoundThreads, s \in Shards :
            /\ replica[th][s].patches = << >>
            /\ IsPrefix(replica[th][s].base, params_[0][s])
            /\ Len(params_[0][s]) = pushes[s])

\* the pushes of one flush are not atomic as a group: a dense fetch of th has
\* just read both shards, the slice of shard a holds the update of a flush and
\* the slice of shard b does not, while shard b has received the push of the
\* same flush since
C30_Witness ==
  /\ ~drop_rate_ /\ NumDevices = 2 /\ cfg.distinct
  /\ \E th \in BoundThreads, a \in Shards, b \in Shards :
       /\ a # b
       /\ pc[th] = "joinFetch" /\ slotArg[th] # ShadowArg
       /\ hpc[th][a] = "done" /\ hpc[th][b] = "done"
       /\ \E i \in 1 .. Len(replica[th][a].base) :
            /\ ~Holds(replica[th][b].base, replica[th][a].base[i])
            /\ Holds(params_[0][b], replica[th][a].base[i])

\* ------------------------------------------------------------ C31
\* th is inside a micro-step that is not the last of its window: before the
\* increment of t the step is the (t mod tau + 1)-th of the window, after it
\* the (t mod tau)-th
InnerMicroStep(th) ==
  /\ tau_ > 1
  /\ bound[th]
  /\ IF pc[th] \in {"fetch", "joinFetch", "compute"}
       THEN (t[th] + 1) % tau_ # 0
       ELSE pc[th] \in {"flush", "joinPush", "sched", "schedUpdate", "save", "joinSave",
                        "validate"}
            /\ t[th] % tau_ # 0

\* th or one of its helpers takes this step
StepOf(th) == pc'[th] # pc[th] \/ hpc'[th] # hpc[th]

\* what a step of th leaves alone in a micro-step that is not the last of its
\* window: the store, the push helpers and the other workers' local state
InnerFrame(th) ==
  /\ params_' = params_ /\ paramsAvg_' = paramsAvg_ /\ grads_' = grads_
  /\ globalVersionNumber' = globalVersionNumber
  /\ pushes' = pushes
  /\ pushArg'[th] = NoPush
  /\ \A s \in Shards : hpc'[th][s] \notin {"pwait", "pmid"}
  /\ pc'[th] # "joinPush"
  /\ \A o \in Threads \ {th} :
       /\ accGradients'[o] = accGradients[o] /\ num_seen_words'[o] = num_seen_words[o]
       /\ t'[o] = t[o] /\ replica'[o] = replica[o]

C32_MovingAverageUpdate ==
  fnOut.called =>
    LET decay == fnOut.decay
        ratio == <<fnIn.batches + 1, fnIn.batches + 10>>
    IN
    /\ ~FLess(fnIn.mvDecay, decay)
    /\ ~FLess(ratio, decay)
    /\ FEq(decay, fnIn.mvDecay) \/ FEq(decay, ratio)
    /\ (fnIn.batches = 0 /\ ~FLess(fnIn.mvDecay, <<1, 10>>)) => FEq(decay, <<1, 10>>)
    /\ Len(fnOut.paramsAvg) = Len(fnIn.paramsAvg)
    /\ \A i \in 1 .. Len(fnIn.paramsAvg) :
         FEq(FSub(fnOut.paramsAvg[i], fnIn.params[i]),
             FMul(decay, FSub(fnIn.paramsAvg[i], fnIn.params[i])))

\* an update with steps = 0 and the default maximum decay: shadow 3, live 0
\* gives 0.3; and one where the maximum decay is the smaller
C32_Witness ==
  /\ fnOut.called
  /\ \/ /\ fnIn.batches = 0 /\ fnIn.mvDecay = <<9999, 10000>>
        /\ fnIn.paramsAvg = <<(<<3, 1>>)>> /\ fnIn.params = <<(<<0, 1>>)>>
        /\ FEq(fnOut.paramsAvg[1], <<3, 10>>)
     \/ /\ fnIn.batches = MaxSteps /\ fnIn.mvDecay = <<1, 20>>
        /\ FEq(fnOut.decay, <<1, 20>>)

\* ------------------------------------------------------------ C33
\* the success responses sent so far
Successes == {i \in 1 .. Len(sent) : ~sent[i].error}

\* the translations of the sentences of request r, in the order of its input,
\* joined by '\n'
OwnTranslations(r) ==
  Join([k \in 1 .. svRequests[r + 1].count |-> Translation(Sentence(r, k - 1))])

\* every sentence of r has been called back for and is in the staging area
AllStaged(r) ==
  /\ \A bn \in pending : marianBatch_to_tritonRequest_map[bn + 1] # r
  /\ Len(partially_completed_requests[r + 1]) = svRequests[r + 1].count
  /\ \A k \in 1 .. svRequests[r + 1].count :
       partially_completed_requests[r + 1][k] = Translation(Sentence(r, k - 1))

\* C33 as claimed: in async serving a success response for r is sent only once
\* a translation is staged for every sentence of r, and its content is exactly
\* r's translations joined by '\n' in the order of r's input sentences.
C33_ResponseIsJoinedTranslations ==
  svAsync =>
    \A i \in Successes :
      /\ AllStaged(sent[i].request)
      /\ sent[i].bytes = OwnTranslations(sent[i].request)
      /\ sent[i].size = Len(sent[i].bytes)

\* C33 as the code has it: the success response of r is sent only once a
\* translation is staged for every sentence of r, only for a request whose
\* input was read, at most once, and its content is r's translations joined by
\* '\n' in the order of r's input sentences followed by the '\0' that ends the
\* C string, which the length counts.
C33_ResponseIsJoinedTranslationsAndNul ==
  svAsync =>
    \A i \in Successes :
      LET r == sent[i].request IN
      /\ AllStaged(r)
      /\ svRequests[r + 1].fault = "none"
      /\ sent[i].bytes = OwnTranslations(r) \o <<Nul>>
      /\ sent[i].size = Len(OwnTranslations(r)) + 1
      /\ \A j \in Successes : sent[j].request = r => j = i

\* callbacks out of order and interleaved: request 1, of two sentences, has
\* its success response while request 0 has its second sentence staged and
\* not its first
C33_Witness ==
  /\ svAsync /\ svpc = "callbacks"
  /\ Len(svRequests) >= 2
  /\ svRequests[2].count = 2
  /\ \E i \in Successes : sent[i].request = 1
  /\ Len(partially_completed_requests[1]) = 2
  /\ ~Staged(partially_completed_requests[1][1])
  /\ Staged(partially_completed_requests[1][2])

\* ------------------------------------------------------------ C34
\* the final responses sent for request r (every response of the backend is
\* sent with TRITONSERVER_RESPONSE_COMPLETE_FINAL)
FinalResponses(r) == {i \in 1 .. Len(sent) : sent[i].request = r}

\* C34 as claimed: every request is released exactly once, as soon as its
\* final response has been sent, success or error, in the sync and in the async
\* path: no request is released twice, and a request has been released whenever
\* a final response has been sent for it, and only then.
C34_ReleasedWithFinalResponse ==
  \A r \in 0 .. (Len(svRequests) - 1) :
    /\ released[r + 1] <= 1
    /\ released[r + 1] = 1 <=> FinalResponses(r) # {}

\* C34 for the success responses alone: a request is released exactly when its
\* success response has been sent, never twice and never after an error
\* response.
C34_ReleasedWithSuccessResponse ==
  \A r \in 0 .. (Len(svRequests) - 1) :
    /\ released[r + 1] <= 1
    /\ Cardinality(FinalResponses(r)) <= 1
    /\ released[r + 1] = 1 <=> \E i \in FinalResponses(r) : ~sent[i].error

\* both paths have come to their end with a request answered by an error
\* response and left unreleased next to one answered and released
C34_Witness ==
  /\ svpc = "returned"
  /\ \E r, q \in 0 .. (Len(svRequests) - 1) :
       /\ released[r + 1] = 0 /\ \E i \in FinalResponses(r) : sent[i].error
       /\ released[q + 1] = 1 /\ \E i \in FinalResponses(q) : ~sent[i].error

\* ------------------------------------------------------------ C35
\* the callback has been invoked for every sentence index of request r
CallbacksDone(r) ==
  /\ svpc \in {"callbacks", "returned"}
  /\ \A bn \in pending : marianBatch_to_tritonRequest_map[bn + 1] # r

\* the input of request r was read
InputRead(r) == svRequests[r + 1].fault \notin {"input", "buffer"}

\* C35 as claimed: in async serving, once the callback has been invoked for
\* every sentence index of a request whose input was read, a final response
\* has been sent for the request, whatever the translations are, the empty
\* string included.
C35_AnsweredAfterLastCallback ==
  svAsync =>
    \A r \in 0 .. (Len(svRequests) - 1) :
      (InputRead(r) /\ CallbacksDone(r)) => FinalResponses(r) # {}

\* C35 for requests none of whose sentences has an empty translation: once the
\* callback has been invoked for every sentence index of the request, a final
\* response has been sent for it.
C35_AnsweredAfterLastCallbackNonEmpty ==
  svAsync =>
    \A r \in 0 .. (Len(svRequests) - 1) :
      (/\ InputRead(r) /\ CallbacksDone(r)
       /\ \A k \in 1 .. svRequests[r + 1].count : Sentence(r, k - 1) \notin svEmptied)
        => FinalResponses(r) # {}

\* the async call has returned, every callback made, and a request of two
\* sentences, one of them with an empty translation, has no response
C35_Witness ==
  /\ svAsync /\ svpc = "returned"
  /\ \E r \in 0 .. (Len(svRequests) - 1) :
       /\ InputRead(r) /\ svRequests[r + 1].count = 2
       /\ Sentence(r, 1) \in svEmptied
       /\ FinalResponses(r) = {}

\* ------------------------------------------------------------ C36
\* C36 as claimed: in sync serving a request that gets a success response gets
\* exactly the translations of its own sentences, in order, whichever requests
\* of the batch before it could not have their input read.
C36_SyncResponseIsOwnTranslations ==
  ~svAsync =>
    \A i \in Successes :
      /\ sent[i].bytes = OwnTranslations(sent[i].request)
      /\ sent[i].size = Len(sent[i].bytes)

\* C36 for the requests before which every input was read: the success
\* response holds exactly the translations of the request's own sentences, in
\* order.
C36_SyncResponseIsOwnTranslationsAllRead ==
  ~svAsync =>
    \A i \in Successes :
      (\A q \in 0 .. (sent[i].request - 1) : InputRead(q)) =>
        /\ sent[i].bytes = OwnTranslations(sent[i].request)
        /\ sent[i].size = Len(sent[i].bytes)

\* request 0 could not have its input read and the two lines of request 1 are
\* taken for it; request 1, of two sentences, is answered with the translation
\* of the one sentence of request 2
C36_Witness ==
  /\ ~svAsync /\ svpc = "returned"
  /\ Len(svRequests) = 3
  /\ svRequests[1].fault = "input"
  /\ svRequests[2].count = 2 /\ svRequests[3].count = 1
  /\ svEmptied = {}
  /\ \E i \in Successes :
       sent[i].request = 1 /\ sent[i].bytes = Translation(Sentence(2, 0))

\* ------------------------------------------------------------ C37
\* a helper of the sparse fetch of worker thread th is at the read of
\* fetchDropper[worker_id][idx]
ReadsFetchDropper(th) == \E s \in Shards : hpc[th][s] = "sfdelta"

\* a thread is between its binding and its fetchDropper.push_back
AppendsFetchDropper(th) == pc[th] = "dropper"

\* C37 as claimed: whenever worker w runs a sparse fetch, fetchDropper has an
\* entry at index w and no thread is about to append to the table while w
\* reads it, for every interleaving of the threads' first tasks.
C37_DropperEntryPresent ==
  \A th \in Threads :
    ReadsFetchDropper(th) =>
      /\ my_id[th] < Len(fetchDropper)
      /\ \A other \in Threads : ~AppendsFetchDropper(other)

\* C37 as far as it holds: a worker that runs a sparse fetch is bound and its
\* own thread has appended one entry to fetchDropper, at the index of its
\* arrival at the second critical section, so the table is not empty.
C37_OwnDropperAppended ==
  \A th \in Threads :
    ReadsFetchDropper(th) =>
      /\ bound[th] /\ hasDropper[th]
      /\ \E k \in 1 .. Len(fetchDropper) : fetchDropper[k] = my_id[th]

\* worker 1 runs its sparse fetch while the table has one entry, its own, and
\* the thread bound to replica 0 has not appended yet
C37_Witness ==
  \E th, other \in Threads :
    /\ ReadsFetchDropper(th) /\ my_id[th] = 1
    /\ fetchDropper = <<1>>
    /\ AppendsFetchDropper(other) /\ my_id[other] = 0

\* ------------------------------------------------------------ C38
\* the buffer is a moving average: a sequence of blends, where live parameters
\* are a sequence of optimizer updates
IsShadow(buffer) == buffer # << >> /\ "decay" \in DOMAIN buffer[1]

\* worker thread th is about to run forward and backward on its replica
AtCompute(th) == pc[th] = "compute"

\* a slice of the replica of th holds shadow values
HoldsShadow(th) == \E s \in Shards : IsShadow(replica[th][s].base)

\* C38 as claimed: with the moving average enabled the replica holds at every
\* COMPUTE parameters derived from live shard parameters only, never shadow
\* values, for every tau and with compression on or off.
C38_ComputeOnLiveParams ==
  movingAvg_ => \A th \in Threads : AtCompute(th) => ~HoldsShadow(th)

\* C38 for tau = 1 without compression, where a dense fetch of every shard
\* precedes every COMPUTE: the replica holds no shadow values at COMPUTE.
C38_ComputeOnLiveParamsDenseEveryStep ==
  (movingAvg_ /\ ~drop_rate_ /\ tau_ = 1) =>
    \A th \in Threads : AtCompute(th) => ~HoldsShadow(th)

\* after a save or validate with the shadow parameters a worker is at COMPUTE
\* with a replica of live parameters again (dense, tau = 1), and another with
\* the shadow parameters still in it (compressed)
C38_Witness ==
  /\ movingAvg_ /\ ~drop_rate_ /\ tau_ = 1 /\ numberOfBatches >= 1
  /\ \E th \in Threads : AtCompute(th) /\ t[th] >= 1 /\ ~HoldsShadow(th)

C38_ShadowWitness ==
  /\ movingAvg_ /\ NumDevices = 2 /\ drop_rate_
  /\ \E th \in Threads : AtCompute(th) /\ HoldsShadow(th)

\* ------------------------------------------------------------ C39
RECURSIVE PlainSum(_)
\* the sum of the penalties
PlainSum(penalties) ==
  IF penalties = << >> THEN <<0, 1>> ELSE FAdd(penalties[1], PlainSum(Tail(penalties)))

\* C39 as claimed: getTotalPenalty returns lambda times the sum of all the
\* partial penalties recorded, for any number of them and any lambda: every
\* partial penalty is weighted by the same factor lambda.
C39_TotalIsLambdaTimesSum ==
  fnOut.called =>
    /\ ~fnOut.fault
    /\ FEq(fnOut.value, FMul(fnIn.lambda, PlainSum(fnIn.partialPenalties)))

\* C39 as the code computes: with one partial penalty or more the result is
\* lambda times the first penalty of the map plus lambda squared times the sum
\* of the others.
C39_FirstWeightedOnce ==
  (fnOut.called /\ fnIn.partialPenalties # << >>) =>
    /\ ~fnOut.fault
    /\ FEq(fnOut.value,
           FAdd(FMul(fnIn.lambda, fnIn.partialPenalties[1]),
                FMul(FMul(fnIn.lambda, fnIn.lambda),
                     PlainSum(Tail(fnIn.partialPenalties)))))

\* lambda = 1/2 and the penalties 1 and 2: the result is 1, where lambda times
\* the sum is 3/2
C39_Witness ==
  /\ fnOut.called
  /\ fnIn.lambda = <<1, 2>> /\ fnIn.partialPenalties = <<<<1, 1>>, <<2, 1>>>>
  /\ FEq(fnOut.value, <<1, 1>>)

====
